---- MODULE Spec2Model ----
(***************************************************************************)
(* SIFT3D: a model of the registration driver (siftreg.c), of the DICOM    *)
(* reader/writer (imutil/dicom.cpp) and of the core stages the driver      *)
(* calls (matcher, RANSAC fitter, pyramid builder).  The core stages live  *)
(* in sift.c and reg.c, which are not part of the sources at hand; they    *)
(* are modelled from the written specification and marked as such in the   *)
(* model map.                                                              *)
(*                                                                         *)
(* Each subsystem has its own variables, its own initial condition and    *)
(* its own specification; the variables of the other subsystems stay at    *)
(* their idle values.                                                      *)
(***************************************************************************)
EXTENDS Integers, Sequences, FiniteSets, TLC

VARIABLES
    \* ---- matcher (SIFT3D_nn_match_fb as called by the driver)
    desc_src,       \* source descriptor store (sequence of descriptors)
    desc_ref,       \* reference descriptor store
    matches,        \* int *matches: one entry per source descriptor, 0-based or -1
    matches_rev,    \* the matcher's output with the two stores exchanged
    match_pc,       \* "start" | "fwd" | "matched" | "reversed"
    match_ret,      \* what the matcher returned to the driver, "none" before
    \* ---- RANSAC transform fitter (find_tform_ransac)
    ran,            \* the Ransac struct: min_inlier_ratio, err_thresh, num_iter, seed
    pts_src,        \* matched source points (match_src)
    pts_ref,        \* matched reference points (match_ref), same length
    rng,            \* state of the random sampler
    ran_iter,       \* iterations completed
    ran_samples,    \* the correspondence indices drawn so far in this run
    ran_best,       \* the retained candidate, or NoCandidate
    ran_pc,         \* "start" | "loop" | "done"
    ran_result,     \* what find_tform_ransac returned
    ran_run,        \* 1 for the first run, 2 for the repeated run
    ran_first,      \* the first run's result, kept for comparison
    \* ---- pyramid builder
    pyr_in,         \* dimensions <<nx, ny, nz>> of the input volume
    pyr_par,        \* [num_octaves, num_intervals]
    gss,            \* Gaussian pyramid: octaves of levels, each level its dimensions
    dog,            \* DoG pyramid, same structure
    pyr_pc,         \* "start" | "gss" | "dog" | "next" | "done"
    \* ---- keypoint detector
    cand,           \* the candidate extremum being refined, or NoCand
    det,            \* [ret, kps]: the detector's return value and keypoints
    \* ---- DICOM reader/writer (dicom.cpp)
    dcm_op,         \* the C entry point called: read_dcm, read_dcm_dir, write_dcm, write_dcm_dir
    dcm_pc,         \* position inside the call
    dcm_ret,        \* the int the C entry point returned, "none" until it returns
    dcm_exc,        \* exception in flight inside the C++ helper, or "none"
    dcm_caught,     \* the last exception a CATCH_EXCEPTIONS clause caught, or "none"
    dcm_caller,     \* "C" for a top-level call, "write_dcm_dir" for the nested write_dcm
    res,            \* temporary resources: how often each was acquired and released
    dir_kind,       \* what the path names: "missing" | "notdir" | "dir" | "file"
    dir_entries,    \* the files of the directory, in the order readdir yields them
    dir_pos,        \* next directory entry to read
    dicoms,         \* std::vector<Dicom> dicoms
    im_out,         \* the Image read_dcm / read_dcm_dir fill
    off_z,          \* z offset of the next slice in read_dcm_dir
    rd_i,           \* slice loop index in read_dcm_dir (1-based)
    w_im,           \* the Image given to write_dcm
    w_max_val,      \* the max_val given to write_dcm
    pixelData,      \* the 8-bit render buffer, as far as it is filled
    files_out,      \* the DICOM files saved so far
    wd_im,          \* the Image given to write_dcm_dir
    wd_i,           \* slice loop index in write_dcm_dir (0-based)
    w_meta,         \* write_dcm's meta argument, then its meta_new
    wd_meta,        \* write_dcm_dir's meta argument, then its meta_new
    uids,           \* how many unique identifiers have been generated
    slicename,      \* what const char *slicename points to in read_dcm_dir's slice loop
    \* ---- registration driver (siftreg.c, main)
    drv_argc,       \* argc
    drv_pc,         \* the stage main is about to run, or "returned" | "exited"
    drv_status,     \* the process's exit status, -1 while main runs
    drv_usage,      \* the usage text has been printed
    syn_mode,       \* -1 until the arguments are parsed, then 0 or 1
    drv_reads,      \* the read_nii calls made: which argv[] into which image
    drv_dims,       \* nx of src, ref, srcp, refp (0: empty image)
    drv_trace,      \* the stages run so far, each with its outcome
    drv_objs,       \* per object of main: how often initialised/received and released
    drv_uaf,        \* a stage has read an object after its release
    \* ---- MEX image reader (mexImRead3D.c, mexFunction)
    mex_nrhs,       \* nrhs: how many inputs the call has
    mex_nlhs,       \* nlhs: how many outputs the call asks for
    mex_arg,        \* the class of prhs[0]: "char" | "other", "none" without inputs
    mex_pc,         \* the step mexFunction is about to run, or "returned" | "error"
    mex_im,         \* Image im: [inits, frees, dims]
    mex_read,       \* what im_read returned, "none" before the call
    mex_err,        \* the identifier of the error raised, or "none"
    mex_plhs        \* plhs[0]: "none" | "array" | "NULL"

matchVars == <<desc_src, desc_ref, matches, matches_rev, match_pc, match_ret>>

ransacVars == <<ran, pts_src, pts_ref, rng, ran_iter, ran_samples, ran_best, ran_pc,
                ran_result, ran_run, ran_first>>

pyrVars == <<pyr_in, pyr_par, gss, dog, pyr_pc, cand, det>>

dcmVars == <<dcm_op, dcm_pc, dcm_ret, dcm_exc, dcm_caught, dcm_caller, res,
             dir_kind, dir_entries, dir_pos, dicoms, im_out, off_z, rd_i,
             w_im, w_max_val, pixelData, files_out, wd_im, wd_i,
             w_meta, wd_meta, uids, slicename>>

drvVars == <<drv_argc, drv_pc, drv_status, drv_usage, syn_mode, drv_reads, drv_dims,
             drv_trace, drv_objs, drv_uaf>>

mexVars == <<mex_nrhs, mex_nlhs, mex_arg, mex_pc, mex_im, mex_read, mex_err, mex_plhs>>

vars == <<matchVars, ransacVars, pyrVars, dcmVars, drvVars, mexVars>>

(***************************************************************************)
(* Small helpers                                                           *)
(***************************************************************************)
Abs(x) == IF x < 0 THEN -x ELSE x



\* All sequences over S of length lo..hi
SeqsBetween(S, lo, hi) == UNION { [1..n -> S] : n \in lo..hi }

(***************************************************************************)
(* MATCHER                                                                 *)
(* Descriptors are modelled as points of a 1-dimensional descriptor space, *)
(* so that the Euclidean distance of two descriptors is |a - b| exactly.   *)
(***************************************************************************)
MaxNs == 2          \* source descriptors in SpecMatch
MaxNr == 3          \* reference descriptors in SpecMatch
MaxDesc == 2        \* descriptor values 0..MaxDesc in SpecMatch
MaxRatioRefs == 3   \* reference descriptors in SpecRatio
MaxRatioDesc == 9   \* descriptor values 0..MaxRatioDesc in SpecRatio

\* #define NN_THRESH 0.8, as the fraction 8/10
NN_THRESH_loose == <<9, 10>>
NN_THRESH == <<8, 10>>

\* Euclidean distance between two descriptors
DescDist(a, b) == Abs(a - b)

\* 1-based index of the nearest reference descriptor; the scan keeps the
\* first of several equally near ones
NearestIdx(d, ref) ==
    CHOOSE j \in 1..Len(ref) :
        /\ \A k \in 1..Len(ref) : DescDist(d, ref[j]) <= DescDist(d, ref[k])
        /\ \A k \in 1..(j - 1) : DescDist(d, ref[k]) > DescDist(d, ref[j])

\* distance to the nearest reference descriptor (d1)
NearestDist(d, ref) == DescDist(d, ref[NearestIdx(d, ref)])

\* distance to the second-nearest reference descriptor (d2 >= d1)
SecondDist(d, ref) ==
    LET j1 == NearestIdx(d, ref)
        others == { DescDist(d, ref[k]) : k \in (1..Len(ref)) \ {j1} }
    IN  CHOOSE x \in others : \A y \in others : x <= y

\* the ratio test d1 < nn_thresh * d2, nn_thresh = th[1] / th[2]
RatioTest(d1, d2, th) == d1 * th[2] < th[1] * d2

\* Forward pass: one entry per source descriptor, the 0-based index of the
\* nearest reference descriptor if it passes the ratio test, else -1.
\* With fewer than two reference descriptors there is no second-nearest
\* distance and nothing is matched.
SIFT3D_nn_match(src, ref, th) ==
    [i \in 1..Len(src) |->
        IF Len(ref) < 2 THEN -1
        ELSE IF RatioTest(NearestDist(src[i], ref), SecondDist(src[i], ref), th)
             THEN NearestIdx(src[i], ref) - 1
             ELSE -1]

\* Forward/backward matcher: the forward pass, the reverse pass, and only
\* the pairs that select each other are kept.
SIFT3D_nn_match_fb_swapped(src, ref, th) ==
    LET fwd == SIFT3D_nn_match(ref, src, th)
        bwd == SIFT3D_nn_match(src, ref, th)
    IN  [i \in 1..Len(ref) |->
            IF fwd[i] >= 0 /\ bwd[fwd[i] + 1] = i - 1 THEN fwd[i] ELSE -1]
SIFT3D_nn_match_fb(src, ref, th) ==
    LET fwd == SIFT3D_nn_match(src, ref, th)
        bwd == SIFT3D_nn_match(ref, src, th)
    IN  [i \in 1..Len(src) |->
            IF fwd[i] >= 0 /\ bwd[fwd[i] + 1] = i - 1 THEN fwd[i] ELSE -1]

\* the matcher's return value: it does not fail on data, whether or not a
\* pair is matched
MatchStatus(src, ref) == "SIFT3D_SUCCESS"

\* siftreg.c: SIFT3D_nn_match_fb(&desc_src, &desc_ref, NN_THRESH, &matches)
DriverMatch_fwdOnly(src, ref) == SIFT3D_nn_match(src, ref, NN_THRESH)
DriverMatch(src, ref) == SIFT3D_nn_match_fb(src, ref, NN_THRESH)

MatchIdle ==
    /\ desc_src = <<>>
    /\ desc_ref = <<>>
    /\ matches = <<>>
    /\ matches_rev = <<>>
    /\ match_pc = "idle"
    /\ match_ret = "none"

InitMatchInputs ==
    /\ desc_src \in SeqsBetween(0..MaxDesc, 0, MaxNs)
    /\ desc_ref \in SeqsBetween(0..MaxDesc, 0, MaxNr)
    /\ matches = <<>>
    /\ matches_rev = <<>>
    /\ match_pc = "start"
    /\ match_ret = "none"

\* one query descriptor against two or more reference descriptors
InitRatioInputs ==
    /\ desc_src \in SeqsBetween(0..MaxRatioDesc, 1, 1)
    /\ desc_ref \in SeqsBetween(0..MaxRatioDesc, 2, MaxRatioRefs)
    /\ matches = <<>>
    /\ matches_rev = <<>>
    /\ match_pc = "start"
    /\ match_ret = "none"

\* the forward pass alone, with the driver's threshold
ForwardPass ==
    /\ match_pc = "start"
    /\ matches' = SIFT3D_nn_match(desc_src, desc_ref, NN_THRESH)
    /\ match_pc' = "fwd"
    /\ UNCHANGED <<desc_src, desc_ref, matches_rev, match_ret>>
    /\ UNCHANGED <<ransacVars, pyrVars, dcmVars, drvVars, mexVars>>

\* the driver's "Match features" step
MatchFeatures ==
    /\ match_pc = "start"
    /\ matches' = DriverMatch(desc_src, desc_ref)
    /\ match_ret' = MatchStatus(desc_src, desc_ref)
    /\ match_pc' = "matched"
    /\ UNCHANGED <<desc_src, desc_ref, matches_rev>>
    /\ UNCHANGED <<ransacVars, pyrVars, dcmVars, drvVars, mexVars>>

\* the same matcher run in the reverse direction on the same two stores
MatchReverse ==
    /\ match_pc = "matched"
    /\ matches_rev' = DriverMatch(desc_ref, desc_src)
    /\ match_pc' = "reversed"
    /\ UNCHANGED <<desc_src, desc_ref, matches, match_ret>>
    /\ UNCHANGED <<ransacVars, pyrVars, dcmVars, drvVars, mexVars>>

(***************************************************************************)
(* RANSAC TRANSFORM FITTER                                                 *)
(* Points are 1-dimensional and the fitted family is the translation       *)
(* y = x + t, whose minimal sample is one correspondence; the loop, the    *)
(* inlier count, the retained candidate and the final threshold are those  *)
(* of the specification.  Fractions are pairs <<numerator, denominator>>.  *)
(***************************************************************************)
MaxCorr == 3        \* correspondences 1..MaxCorr
MaxCoord == 2       \* reference point coordinates 0..MaxCoord
MaxIter == 2        \* num_iter 1..MaxIter
MaxSeed == 1        \* seeds 0..MaxSeed

\* #define MIN_INLIER_RATIO 0.001
MIN_INLIER_RATIO == <<1, 1000>>

\* min_inlier_ratio values tried: the driver's and one half
RatioChoices == { MIN_INLIER_RATIO, <<1, 2>> }

\* err_thresh values tried
ErrThreshChoices == { 1, 2 }

NoCandidate == [count |-> -1, res |-> 0, t |-> 0]

NoResult == [err |-> "none", inliers |-> 0, tform |-> <<0, 1>>]

NoFirstRun == [result |-> NoResult, samples |-> <<>>]

\* ceil(ratio * n) for a fraction ratio
CeilMul(ratio, n) == (ratio[1] * n + ratio[2] - 1) \div ratio[2]

\* The sampler: a linear congruential generator
NextRng(s) == (5 * s + 3) % 8

\* seeding the sampler at the start of a run
SeedSampler_unseeded(stale, seed) == stale
SeedSampler(stale, seed) == seed % 8

\* draw one correspondence index (1-based) out of n
DrawIndex(s, n) == (s % n) + 1

\* fit_from_points for the translation family: t from the sampled pair
FitCandidate(src, ref, k) == ref[k] - src[k]

\* residual of correspondence i under translation t: |x + t - y|
Residual(src, ref, i, t) == Abs(src[i] + t - ref[i])

\* inliers have error < err_thresh
Inliers(src, ref, t, err) ==
    { i \in 1..Len(src) : Residual(src, ref, i, t) < err }

RECURSIVE SumOver(_, _)
SumOver(f, S) ==
    IF S = {} THEN 0
    ELSE LET x == CHOOSE y \in S : TRUE
         IN  f[x] + SumOver(f, S \ {x})

Candidate(src, ref, k, err) ==
    LET t == FitCandidate(src, ref, k)
        inl == Inliers(src, ref, t, err)
    IN  [count |-> Cardinality(inl),
         res |-> SumOver([i \in 1..Len(src) |-> Residual(src, ref, i, t)], inl),
         t |-> t]

\* greatest inlier count, ties broken in favour of the lower mean residual
Better_orEqual(c, b) ==
    \/ c.count > b.count
    \/ c.count = b.count /\ c.res * b.count <= b.res * c.count
Better(c, b) ==
    \/ c.count > b.count
    \/ c.count = b.count /\ c.res * b.count < b.res * c.count

\* the final check against ceil(min_inlier_ratio * N)
InsufficientInliers_orEqual(best, ratio, n) == best.count <= CeilMul(ratio, n)
InsufficientInliers(best, ratio, n) == best.count < CeilMul(ratio, n)

\* least-squares refit of the translation on the complete inlier set:
\* the mean difference, as a fraction
Refit(src, ref, t, err) ==
    LET inl == Inliers(src, ref, t, err)
    IN  <<SumOver([i \in 1..Len(src) |-> ref[i] - src[i]], inl), Cardinality(inl)>>

RansacIdle ==
    /\ ran = [min_inlier_ratio |-> <<0, 1>>, err_thresh |-> 0, num_iter |-> 0, seed |-> 0]
    /\ pts_src = <<>>
    /\ pts_ref = <<>>
    /\ rng = 0
    /\ ran_iter = 0
    /\ ran_samples = <<>>
    /\ ran_best = NoCandidate
    /\ ran_pc = "idle"
    /\ ran_result = NoResult
    /\ ran_run = 0
    /\ ran_first = NoFirstRun

\* The translation family sees a correspondence only through ref[i] - src[i]:
\* the source points are placed at the origin and the reference points
\* range over 0..MaxCoord.
InitRansacInputs ==
    /\ \E n \in 1..MaxCorr :
          /\ pts_src = [i \in 1..n |-> 0]
          /\ pts_ref \in [1..n -> 0..MaxCoord]
    /\ ran \in [min_inlier_ratio : RatioChoices, err_thresh : ErrThreshChoices,
                num_iter : 1..MaxIter, seed : 0..MaxSeed]
    /\ rng = 0
    /\ ran_iter = 0
    /\ ran_samples = <<>>
    /\ ran_best = NoCandidate
    /\ ran_pc = "start"
    /\ ran_result = NoResult
    /\ ran_run = 1
    /\ ran_first = NoFirstRun

\* entry of find_tform_ransac: the sampler is seeded from the configured seed
RansacStart ==
    /\ ran_pc = "start"
    /\ rng' = SeedSampler(rng, ran.seed)
    /\ ran_iter' = 0
    /\ ran_samples' = <<>>
    /\ ran_best' = NoCandidate
    /\ ran_result' = NoResult
    /\ ran_pc' = "loop"
    /\ UNCHANGED <<ran, pts_src, pts_ref, ran_run, ran_first>>
    /\ UNCHANGED <<matchVars, pyrVars, dcmVars, drvVars, mexVars>>

\* one iteration: sample, fit, count inliers, keep the better candidate
RansacIterate ==
    /\ ran_pc = "loop"
    /\ ran_iter < ran.num_iter
    /\ LET k == DrawIndex(rng, Len(pts_src))
           c == Candidate(pts_src, pts_ref, k, ran.err_thresh)
       IN  /\ ran_best' = IF Better(c, ran_best) THEN c ELSE ran_best
           /\ ran_samples' = Append(ran_samples, k)
    /\ rng' = NextRng(rng)
    /\ ran_iter' = ran_iter + 1
    /\ UNCHANGED <<ran, pts_src, pts_ref, ran_pc, ran_result, ran_run, ran_first>>
    /\ UNCHANGED <<matchVars, pyrVars, dcmVars, drvVars, mexVars>>

\* after the loop: the inlier threshold, then the refit
RansacFinish ==
    /\ ran_pc = "loop"
    /\ ran_iter >= ran.num_iter
    /\ ran_result' =
          IF InsufficientInliers(ran_best, ran.min_inlier_ratio, Len(pts_src))
          THEN [err |-> "ERR_INSUFFICIENT_INLIERS", inliers |-> ran_best.count,
                tform |-> <<0, 1>>]
          ELSE [err |-> "OK", inliers |-> ran_best.count,
                tform |-> Refit(pts_src, pts_ref, ran_best.t, ran.err_thresh)]
    /\ ran_pc' = "done"
    /\ UNCHANGED <<ran, pts_src, pts_ref, rng, ran_iter, ran_samples, ran_best,
                   ran_run, ran_first>>
    /\ UNCHANGED <<matchVars, pyrVars, dcmVars, drvVars, mexVars>>

\* the fitter is called again with the same Ransac struct and the same points
RansacAgain ==
    /\ ran_pc = "done"
    /\ ran_run = 1
    /\ ran_first' = [result |-> ran_result, samples |-> ran_samples]
    /\ ran_run' = 2
    /\ ran_pc' = "start"
    /\ UNCHANGED <<ran, pts_src, pts_ref, rng, ran_iter, ran_samples, ran_best,
                   ran_result>>
    /\ UNCHANGED <<matchVars, pyrVars, dcmVars, drvVars, mexVars>>

(***************************************************************************)
(* PYRAMID BUILDER                                                         *)
(* A level is represented by its dimensions <<nx, ny, nz>>; the claims     *)
(* settled here are about the shape of the pyramids, not the voxel values. *)
(***************************************************************************)
MaxPyrDim == 2      \* input dimensions 1..MaxPyrDim, and the scenario's
MaxIntervals == 3   \* num_intervals 1..MaxIntervals
MaxOctaves == 4     \* num_octaves 1..MaxOctaves

\* the dimensions of scenario 2 (100 x 80 x 60)
ScenarioDims == {60, 80, 100}

\* 2x up-sampling of the input (step 1)
Upsample2x(d) == <<2 * d[1], 2 * d[2], 2 * d[3]>>

\* stride-2 decimation, no additional blur (step 3)
Downsample2x_noop(d) == d
Downsample2x(d) == <<d[1] \div 2, d[2] \div 2, d[3] \div 2>>

\* an incremental separable Gaussian keeps the dimensions (step 2)
GaussBlur(d) == d

\* levels per octave: num_intervals + 3
NumGssLevels(num_intervals) == num_intervals + 3

\* voxel-wise subtraction of two adjacent levels (step 4); defined only for
\* levels of equal dimensions
Subtract(a, b) == IF a = b THEN a ELSE <<-1, -1, -1>>

\* the DoG levels of one octave: DoG[l] = GSS[l+1] - GSS[l]
DogOfOctave(levels) ==
    [l \in 1..(Len(levels) - 1) |-> Subtract(levels[l + 1], levels[l])]

\* the level the next octave is built from: index num_intervals (0-based)
NextOctaveBase(levels, num_intervals) == Downsample2x(levels[num_intervals + 1])

\* no candidate under refinement
NoCand == [state |-> "none"]

PyrIdle ==
    /\ pyr_in = <<0, 0, 0>>
    /\ pyr_par = [num_octaves |-> 0, num_intervals |-> 0]
    /\ gss = <<>>
    /\ dog = <<>>
    /\ pyr_pc = "idle"
    /\ cand = NoCand
    /\ det = [ret |-> "running", kps |-> {}]

InitPyrInputs ==
    /\ pyr_in \in [1..3 -> (1..MaxPyrDim) \cup ScenarioDims]
    /\ pyr_par \in [num_octaves : 1..MaxOctaves, num_intervals : 1..MaxIntervals]
    /\ gss = <<>>
    /\ dog = <<>>
    /\ pyr_pc = "start"
    /\ cand = NoCand
    /\ det = [ret |-> "running", kps |-> {}]

\* step 1: the first level of octave 0 is the up-sampled, blurred input
PyrBase ==
    /\ pyr_pc = "start"
    /\ gss' = << <<GaussBlur(Upsample2x(pyr_in))>> >>
    /\ pyr_pc' = "gss"
    /\ UNCHANGED <<pyr_in, pyr_par, dog, cand, det>>
    /\ UNCHANGED <<matchVars, ransacVars, dcmVars, drvVars, mexVars>>

\* step 2: the next level of the current octave
PyrGssLevel ==
    /\ pyr_pc = "gss"
    /\ LET o == Len(gss)
           levels == gss[o]
       IN  IF Len(levels) < NumGssLevels(pyr_par.num_intervals)
           THEN /\ gss' = [gss EXCEPT ![o] = Append(levels, GaussBlur(levels[Len(levels)]))]
                /\ pyr_pc' = "gss"
           ELSE /\ gss' = gss
                /\ pyr_pc' = "dog"
    /\ UNCHANGED <<pyr_in, pyr_par, dog, cand, det>>
    /\ UNCHANGED <<matchVars, ransacVars, dcmVars, drvVars, mexVars>>

\* step 4: the DoG levels of the current octave
PyrDog ==
    /\ pyr_pc = "dog"
    /\ dog' = Append(dog, DogOfOctave(gss[Len(gss)]))
    /\ pyr_pc' = IF Len(gss) < pyr_par.num_octaves THEN "next" ELSE "done"
    /\ UNCHANGED <<pyr_in, pyr_par, gss, cand, det>>
    /\ UNCHANGED <<matchVars, ransacVars, dcmVars, drvVars, mexVars>>

\* step 3: the base of the next octave
PyrNextOctave ==
    /\ pyr_pc = "next"
    /\ gss' = Append(gss, <<NextOctaveBase(gss[Len(gss)], pyr_par.num_intervals)>>)
    /\ pyr_pc' = "gss"
    /\ UNCHANGED <<pyr_in, pyr_par, dog, cand, det>>
    /\ UNCHANGED <<matchVars, ransacVars, dcmVars, drvVars, mexVars>>

(***************************************************************************)
(* DICOM READER / WRITER (imutil/dicom.cpp)                                *)
(***************************************************************************)
MaxFiles == 2       \* directory entries 0..MaxFiles
MaxInstance == 2    \* InstanceNumber 1..MaxInstance
MaxFrames == 2      \* frames per file 1..MaxFrames

\* SeriesInstanceUID values of the files
SeriesUIDs == {"1.2.840.1", "1.2.840.2"}

\* slice shapes <<nx, ny>> of the files
Shapes == {<<1, 1>>, <<2, 1>>}

\* exceptions the C++ helpers can raise: a std::exception (std::bad_alloc
\* from std::string, std::vector or new[]) or anything else
Exceptions == {"std::exception", "unknown"}

Resources == {"dir", "slice", "buf"}

NoRes == [r \in Resources |-> [acq |-> 0, rel |-> 0]]

Acquire(rs, r) == [rs EXCEPT ![r].acq = @ + 1]

Release(rs, r) == [rs EXCEPT ![r].rel = @ + 1]

\* Dicom::Dicom(): Data is initially invalid
DefaultDicom ==
    [filename |-> 0, seriesUID |-> "", instance |-> -1,
     nx |-> 0, ny |-> 0, nz |-> 0, nc |-> 0, u |-> <<0, 0, 0>>, valid |-> FALSE]

\* A file on disk is its format, the attributes DCMTK finds in it (meta) and
\* what is missing from it (defect): "load" (fileFormat.loadFile fails),
\* "series", "instance", "spacing", "thickness" (the tag is absent),
\* "image" (DicomImage status is not EIS_Normal), "color" (not monochrome).

\* a file that does not have the DICOM format (im_get_format(...) != DICOM)
OtherFile == [fmt |-> "OTHER", meta |-> DefaultDicom, defect |-> "none"]

\* a file with the DICOM format that Dicom::Dicom(path) fails to load
BadDicomFile == [fmt |-> "DICOM", meta |-> DefaultDicom, defect |-> "load"]

\* the files with the DICOM format that load as valid: nc = 1 and positive
\* dimensions (Dicom::Dicom sets valid last)
GoodDicomFiles ==
    { [fmt |-> "DICOM", defect |-> "none",
       meta |-> [filename |-> 0, seriesUID |-> uid, instance |-> n,
                 nx |-> sh[1], ny |-> sh[2], nz |-> f, nc |-> 1,
                 u |-> <<10000000, 10000000, 10000000>>, valid |-> TRUE]] :
        uid \in SeriesUIDs, n \in 1..MaxInstance, sh \in Shapes, f \in 1..MaxFrames }

FileChoices == GoodDicomFiles \cup {OtherFile, BadDicomFile}

\* the checks "if (ux <= 0.0)", "if (uy <= 0.0)", "if (uz <= 0.0)"
InvalidSpacing_negative(v) == v < 0
InvalidSpacing(v) == v <= 0

\* Dicom::Dicom(std::string path) on directory entry k, the file name being
\* the entry's position.  The constructor starts from valid(false) and
\* returns at the first step that fails; a member is assigned when its step
\* is reached; valid = true is the last statement.  uy is ux times
\* getHeightWidthRatio(): the file's u[2] is that product.
LoadDicom(entries, k) ==
    LET e == entries[k]
        m == e.meta
        steps == <<"load", "series", "instance", "image", "color", "dims",
                   "spacing", "ux", "uy", "thickness", "uz">>
        fails(s) ==
            CASE s = "dims" -> m.nx < 1 \/ m.ny < 1 \/ m.nz < 1
              [] s = "ux" -> InvalidSpacing(m.u[1])
              [] s = "uy" -> InvalidSpacing(m.u[2])
              [] s = "uz" -> InvalidSpacing(m.u[3])
              [] OTHER -> e.defect = s
        n == Len(steps)
        bad == { i \in 1..n : fails(steps[i]) }
        f == IF bad = {} THEN n + 1 ELSE CHOOSE i \in bad : \A j \in bad : i <= j
    IN  [filename |-> k,
         seriesUID |-> IF f > 2 THEN m.seriesUID ELSE "",
         instance |-> IF f > 3 THEN m.instance ELSE -1,
         nc |-> IF f > 5 THEN 1 ELSE 0,
         nx |-> IF f >= 6 THEN m.nx ELSE 0,
         ny |-> IF f >= 6 THEN m.ny ELSE 0,
         nz |-> IF f >= 6 THEN m.nz ELSE 0,
         u |-> << IF f >= 8 THEN m.u[1] ELSE 0,
                  IF f >= 9 THEN m.u[2] ELSE 0,
                  IF f >= 11 THEN m.u[3] ELSE 0 >>,
         valid |-> f > n]

\* Dicom::operator<  -- sort by instance number
DicomLess_descending(a, b) == a.instance > b.instance
DicomLess(a, b) == a.instance < b.instance

\* Dicom::eqSeries  -- return !seriesUID.compare(dicom.seriesUID)
eqSeries_inverted(a, b) == a.seriesUID # b.seriesUID
eqSeries(a, b) == a.seriesUID = b.seriesUID

\* all orders std::sort(dicoms.begin(), dicoms.end()) can leave: sorted
\* under operator<, in any order among equal instance numbers
IndexPerms(n) ==
    { p \in [1..n -> 1..n] : \A i, j \in 1..n : i # j => p[i] # p[j] }

SortedDicoms(ds) ==
    { [i \in 1..Len(ds) |-> ds[p[i]]] : p \in
        { q \in IndexPerms(Len(ds)) :
            \A i, j \in 1..Len(ds) : i < j => ~DicomLess(ds[q[j]], ds[q[i]]) } }

\* "Check that the files are from the same series" (lines 525-538)
SameSeries(ds) == \A i \in 2..Len(ds) : eqSeries(ds[1], ds[i])

\* "Verify the dimensions of the other files" (lines 545-568)
SameDims_unchecked(ds) == TRUE
SameDims(ds) ==
    \A i \in 1..Len(ds) :
        ds[i].nx = ds[1].nx /\ ds[i].ny = ds[1].ny /\ ds[i].nc = ds[1].nc

RECURSIVE SumNz(_)
SumNz(ds) == IF ds = <<>> THEN 0 ELSE ds[1].nz + SumNz(Tail(ds))

NoImage == [nx |-> 0, ny |-> 0, nz |-> 0, nc |-> 0, u |-> <<0, 0, 0>>, prov |-> <<>>]

\* the output image after the dimensions and units are copied from the
\* Dicom d (lines 392-398, 570-576) and im_resize: every z-slice still
\* unwritten
ResizedImage(d, nz) ==
    [nx |-> d.nx, ny |-> d.ny, nz |-> nz, nc |-> d.nc, u |-> d.u,
     prov |-> [z \in 1..nz |-> <<0, 0>>]]

\* the copy loop of one slice file (lines 603-609): frame z of the file
\* goes to z + off_z of the volume; prov records <<file, frame>>
CopySlice(im, d, off) ==
    [im EXCEPT !.prov = [z \in DOMAIN im.prov |->
        IF z - off \in 1..d.nz THEN <<d.filename, z - off>> ELSE im.prov[z]]]

\* meta = NULL
NullMeta == [null |-> TRUE]

\* const char default_instance_num = 1
default_instance_num == 1

\* dcmGenerateUniqueIdentifier: the n-th identifier generated, under a root
dcmGenerateUniqueIdentifier(root, n) == [root |-> root, n |-> n]

\* a Dcm_meta the caller filled in
GivenMeta ==
    [study_uid |-> [root |-> "caller", n |-> 1],
     series_uid |-> [root |-> "caller", n |-> 2],
     instance_uid |-> [root |-> "caller", n |-> 3],
     instance_num |-> 2]

\* lines 302-310: default values and three new UIDs, n having been
\* generated before
default_Dcm_meta(n) ==
    [study_uid |-> dcmGenerateUniqueIdentifier("SITE_STUDY_UID_ROOT", n + 1),
     series_uid |-> dcmGenerateUniqueIdentifier("SITE_SERIES_UID_ROOT", n + 2),
     instance_uid |-> dcmGenerateUniqueIdentifier("SITE_INSTANCE_UID_ROOT", n + 3),
     instance_num |-> default_instance_num]

\* lines 621-628: meta_new, and the number of identifiers generated so far
set_meta_defaults_always(meta, n) == [meta |-> default_Dcm_meta(n), uids |-> n + 3]
set_meta_defaults(meta, n) ==
    IF meta = NullMeta
    THEN [meta |-> default_Dcm_meta(n), uids |-> n + 3]
    ELSE [meta |-> meta, uids |-> n]

DcmIdle ==
    /\ dcm_op = "none"
    /\ dcm_pc = "idle"
    /\ dcm_ret = "none"
    /\ dcm_exc = "none"
    /\ dcm_caught = "none"
    /\ dcm_caller = "C"
    /\ res = NoRes
    /\ dir_kind = "missing"
    /\ dir_entries = <<>>
    /\ dir_pos = 1
    /\ dicoms = <<>>
    /\ im_out = NoImage
    /\ off_z = 0
    /\ rd_i = 1
    /\ w_im = [nc |-> 0, nz |-> 0, vox |-> <<>>]
    /\ w_max_val = 0
    /\ pixelData = <<>>
    /\ files_out = <<>>
    /\ wd_im = [nc |-> 0, nz |-> 0, vox |-> <<>>]
    /\ wd_i = 0
    /\ w_meta = NullMeta
    /\ wd_meta = NullMeta
    /\ uids = 0
    /\ slicename = "none"

\* the parts of the DICOM state every call starts from
DcmFresh ==
    /\ dcm_ret = "none"
    /\ dcm_exc = "none"
    /\ dcm_caught = "none"
    /\ dcm_caller = "C"
    /\ res = NoRes
    /\ dir_pos = 1
    /\ dicoms = <<>>
    /\ im_out = NoImage
    /\ off_z = 0
    /\ rd_i = 1
    /\ pixelData = <<>>
    /\ files_out = <<>>
    /\ wd_i = 0
    /\ uids = 0
    /\ slicename = "none"

NoWriteInput ==
    /\ w_im = [nc |-> 0, nz |-> 0, vox |-> <<>>]
    /\ w_max_val = 0
    /\ wd_im = [nc |-> 0, nz |-> 0, vox |-> <<>>]
    /\ w_meta = NullMeta
    /\ wd_meta = NullMeta

\* read_dcm_dir(path, im) on a path that is missing, not a directory, or a
\* directory with 0..MaxFiles entries in any enumeration order
InitReadDcmDir ==
    /\ dcm_op = "read_dcm_dir"
    /\ dcm_pc = "rd_start"
    /\ \/ dir_kind \in {"missing", "notdir"} /\ dir_entries = <<>>
       \/ dir_kind = "dir" /\ dir_entries \in SeqsBetween(FileChoices, 0, MaxFiles)
    /\ DcmFresh
    /\ NoWriteInput

\* read_dcm(path, im) on a file with the DICOM format
InitReadDcm ==
    /\ dcm_op = "read_dcm"
    /\ dcm_pc = "r_start"
    /\ dir_kind = "file"
    /\ LET g == [fmt |-> "DICOM", defect |-> "none",
                 meta |-> [filename |-> 0, seriesUID |-> "s1", instance |-> 1,
                           nx |-> 1, ny |-> 1, nz |-> 1, nc |-> 1,
                           u |-> <<10000000, 10000000, 10000000>>, valid |-> FALSE]]
           defective ==
               { [g EXCEPT !.defect = x] :
                   x \in {"series", "instance", "image", "color", "spacing", "thickness"} }
               \cup { [g EXCEPT !.meta.nx = 0], [g EXCEPT !.meta.ny = 0],
                       [g EXCEPT !.meta.nz = 0], [g EXCEPT !.meta.u[1] = 0],
                       [g EXCEPT !.meta.u[2] = 0], [g EXCEPT !.meta.u[3] = 0],
                       [g EXCEPT !.meta.u[3] = -10000000] }
       IN  dir_entries \in
               SeqsBetween(GoodDicomFiles \cup {BadDicomFile} \cup defective, 1, 1)
    /\ DcmFresh
    /\ NoWriteInput

\* the helper returns v: the CATCH_EXCEPTIONS macro stores it in ret and the
\* C entry point returns ret
HelperReturns(v) ==
    /\ dcm_ret' = v
    /\ dcm_pc' = "returned"
    /\ UNCHANGED <<dcm_exc, dcm_caught>>

\* the helper raises e, which unwinds the helper's frame
HelperThrows(e) ==
    /\ dcm_exc' = e
    /\ dcm_pc' = "thrown"
    /\ UNCHANGED <<dcm_ret, dcm_caught>>

HelperGoes(pc) ==
    /\ dcm_pc' = pc
    /\ UNCHANGED <<dcm_ret, dcm_exc, dcm_caught>>

\* which exceptions the macro's catch clauses handle:
\* catch (std::exception &e) and catch (...)
CaughtAsStd(e) == e = "std::exception"

CaughtByEllipsis(e) == TRUE

Handled_stdOnly(e) == CaughtAsStd(e)
Handled(e) == CaughtAsStd(e) \/ CaughtByEllipsis(e)

(* ------------------------------ read_dcm ------------------------------ *)
\* read_dcm_cpp (lines 375-462).  What DCMTK and im_resize answer is the
\* environment's choice.
ReadDcm ==
    /\ dcm_op = "read_dcm"
    /\ dcm_pc = "r_start"
    /\ LET d == LoadDicom(dir_entries, 1)
       IN  \/ \E e \in Exceptions :
                HelperThrows(e) /\ UNCHANGED im_out
           \/ ~d.valid /\ HelperReturns("SIFT3D_FAILURE") /\ UNCHANGED im_out
           \/ /\ d.valid
              /\ \E step \in {"image", "resize", "depth", "frame"} :
                    /\ HelperReturns("SIFT3D_FAILURE")
                    /\ im_out' = IF step = "image" THEN im_out
                                 ELSE [NoImage EXCEPT !.nx = d.nx, !.ny = d.ny,
                                                      !.nz = d.nz, !.nc = d.nc,
                                                      !.u = d.u]
           \/ /\ d.valid
              /\ HelperReturns("SIFT3D_SUCCESS")
              /\ im_out' = CopySlice(ResizedImage(d, d.nz), d, 0)
    /\ UNCHANGED <<dcm_op, dcm_caller, res, dir_kind, dir_entries, dir_pos, dicoms,
                   off_z, rd_i, w_im, w_max_val, pixelData, files_out, wd_im, wd_i>>
    /\ UNCHANGED <<matchVars, ransacVars, pyrVars, drvVars, mexVars, w_meta, wd_meta, uids, slicename>>

(* ---------------------------- read_dcm_dir ---------------------------- *)
\* lines 472-488: stat, S_ISDIR, opendir
ReadDirOpen ==
    /\ dcm_op = "read_dcm_dir"
    /\ dcm_pc = "rd_start"
    /\ \/ dir_kind # "dir" /\ HelperReturns("SIFT3D_FAILURE") /\ UNCHANGED res
       \/ /\ dir_kind = "dir"
          /\ \E opened \in BOOLEAN :
                IF opened
                THEN HelperGoes("rd_scan") /\ res' = Acquire(res, "dir")
                ELSE HelperReturns("SIFT3D_FAILURE") /\ UNCHANGED res
    /\ UNCHANGED <<dcm_op, dcm_caller, dir_kind, dir_entries, dir_pos, dicoms, im_out,
                   off_z, rd_i, w_im, w_max_val, pixelData, files_out, wd_im, wd_i>>
    /\ UNCHANGED <<matchVars, ransacVars, pyrVars, drvVars, mexVars, w_meta, wd_meta, uids, slicename>>

\* lines 490-513: one readdir, or the end of the directory
ReadDirScan ==
    /\ dcm_op = "read_dcm_dir"
    /\ dcm_pc = "rd_scan"
    /\ IF dir_pos <= Len(dir_entries)
       THEN LET d == LoadDicom(dir_entries, dir_pos)
            IN  \/ \E e \in Exceptions :
                     /\ HelperThrows(e)
                     /\ UNCHANGED <<res, dir_pos, dicoms>>
                \/ /\ dir_entries[dir_pos].fmt # "DICOM"
                   /\ HelperGoes("rd_scan")
                   /\ dir_pos' = dir_pos + 1
                   /\ UNCHANGED <<res, dicoms>>
                \/ /\ dir_entries[dir_pos].fmt = "DICOM"
                   /\ ~d.valid
                   /\ res' = Release(res, "dir")
                   /\ HelperReturns("SIFT3D_FAILURE")
                   /\ UNCHANGED <<dir_pos, dicoms>>
                \/ /\ dir_entries[dir_pos].fmt = "DICOM"
                   /\ d.valid
                   /\ dicoms' = Append(dicoms, d)
                   /\ dir_pos' = dir_pos + 1
                   /\ HelperGoes("rd_scan")
                   /\ UNCHANGED res
       ELSE /\ res' = Release(res, "dir")
            /\ HelperGoes("rd_verify")
            /\ UNCHANGED <<dir_pos, dicoms>>
    /\ UNCHANGED <<dcm_op, dcm_caller, dir_kind, dir_entries, im_out,
                   off_z, rd_i, w_im, w_max_val, pixelData, files_out, wd_im, wd_i>>
    /\ UNCHANGED <<matchVars, ransacVars, pyrVars, drvVars, mexVars, w_meta, wd_meta, uids, slicename>>

\* lines 515-590: file count, series, dimensions, resize, sort, slice image
ReadDirVerify ==
    /\ dcm_op = "read_dcm_dir"
    /\ dcm_pc = "rd_verify"
    /\ IF Len(dicoms) = 0 \/ ~SameSeries(dicoms) \/ ~SameDims(dicoms)
       THEN /\ HelperReturns("SIFT3D_FAILURE")
            /\ UNCHANGED <<res, dicoms, im_out>>
       ELSE LET first == dicoms[1]
                nz == SumNz(dicoms)
            IN  \/ /\ HelperReturns("SIFT3D_FAILURE")      \* im_resize fails
                   /\ im_out' = [NoImage EXCEPT !.nx = first.nx, !.ny = first.ny,
                                                !.nz = nz, !.nc = first.nc,
                                                !.u = first.u]
                   /\ UNCHANGED <<res, dicoms>>
                \/ /\ im_out' = ResizedImage(first, nz)
                   /\ dicoms' \in SortedDicoms(dicoms)
                   /\ res' = Acquire(res, "slice")
                   /\ HelperGoes("rd_copy")
    /\ off_z' = 0
    /\ rd_i' = 1
    /\ UNCHANGED <<dcm_op, dcm_caller, dir_kind, dir_entries, dir_pos,
                   w_im, w_max_val, pixelData, files_out, wd_im, wd_i>>
    /\ UNCHANGED <<matchVars, ransacVars, pyrVars, drvVars, mexVars, w_meta, wd_meta, uids, slicename>>

\* lines 591-616: one pass of the slice loop, or its end.
\* slicename = dicoms[i].name().c_str() (line 595): name() returns the
\* std::string by value (line 162), so the pointer refers to a temporary
\* that is destroyed at the end of that statement.  Using it in
\* read_dcm(slicename, &slice) is undefined: the bytes are either still
\* the file's name ("intact") or overwritten ("destroyed", no file of that
\* name loads and read_dcm fails).  With the name intact read_dcm reads the
\* file, and can still fail on it.
ReadDirCopy ==
    /\ dcm_op = "read_dcm_dir"
    /\ dcm_pc = "rd_copy"
    /\ IF rd_i <= Len(dicoms)
       THEN \/ \E e \in Exceptions :
                 /\ HelperThrows(e)
                 /\ UNCHANGED <<res, im_out, off_z, rd_i, slicename>>
            \/ /\ slicename' \in {"intact", "destroyed"}
               /\ res' = Release(res, "slice")
               /\ HelperReturns("SIFT3D_FAILURE")
               /\ UNCHANGED <<im_out, off_z, rd_i>>
            \/ /\ slicename' = "intact"
               /\ im_out' = CopySlice(im_out, dicoms[rd_i], off_z)
               /\ off_z' = off_z + dicoms[rd_i].nz
               /\ rd_i' = rd_i + 1
               /\ HelperGoes("rd_copy")
               /\ UNCHANGED res
       ELSE /\ IF off_z = im_out.nz
               THEN HelperReturns("SIFT3D_SUCCESS") /\ res' = Release(res, "slice")
               ELSE HelperGoes("aborted") /\ UNCHANGED res  \* assert(off_z == nz)
            /\ UNCHANGED <<im_out, off_z, rd_i, slicename>>
    /\ UNCHANGED <<dcm_op, dcm_caller, dir_kind, dir_entries, dir_pos, dicoms,
                   w_im, w_max_val, pixelData, files_out, wd_im, wd_i>>
    /\ UNCHANGED <<matchVars, ransacVars, pyrVars, drvVars, mexVars, w_meta, wd_meta, uids>>

(* ------------------------- 8-bit pixel rendering ---------------------- *)
MaxNz == 2          \* slices (frames) 1..MaxNz of an image to write
MaxVox == 7         \* voxel values -1..MaxVox, max_val -1..MaxVox

\* const unsigned int dcm_bit_width = 8
dcm_bit_width == 8

RECURSIVE Pow2(_)
Pow2(n) == IF n <= 0 THEN 1 ELSE 2 * Pow2(n - 1)

\* p / q rounded to the nearest integer, ties to even (IEEE 754 default)
RoundHalfEven(p, q) ==
    LET f == p \div q
        r == p % q
    IN  IF 2 * r < q THEN f
        ELSE IF 2 * r > q THEN f + 1
        ELSE IF f % 2 = 0 THEN f ELSE f + 1

\* A non-negative single-precision value is [m, e] and stands for m / 2^e.
\* Integers below 2^24 are exact.
FloatOfInt(n) == [m |-> n, e |-> 0]

\* a / b in single precision (a, b positive integers, a / b < 2^24):
\* the quotient rounded to a 24-bit significand
FloatDiv(a, b) ==
    LET k == CHOOSE j \in 0..30 :
                 /\ a * Pow2(j) >= b * Pow2(23)
                 /\ \A i \in 0..(j - 1) : a * Pow2(i) < b * Pow2(23)
    IN  [m |-> RoundHalfEven(a * Pow2(k), b), e |-> k]

\* v * f in single precision (v a non-negative integer): the exact product
\* rounded to a 24-bit significand
FloatMul(v, f) ==
    LET p == v * f.m
    IN  IF p < Pow2(24) THEN [m |-> p, e |-> f.e]
        ELSE LET sh == CHOOSE j \in 1..30 :
                          /\ p \div Pow2(j) < Pow2(24)
                          /\ \A i \in 0..(j - 1) : p \div Pow2(i) >= Pow2(24)
             IN  [m |-> RoundHalfEven(p, Pow2(sh)) * Pow2(sh), e |-> f.e]

\* truncation toward zero of a non-negative single-precision value
FloatTrunc(f) == f.m \div Pow2(f.e)

\* im_max_abs(im): the maximum absolute voxel value
im_max_abs(im) ==
    LET A == { Abs(im.vox[i]) : i \in 1..Len(im.vox) }
    IN  IF A = {} THEN 0 ELSE CHOOSE x \in A : \A y \in A : y <= x

\* line 838: static_cast<float>(1 << dcm_bit_width) - 1.0f
dcm_max_val == Pow2(dcm_bit_width) - 1

\* line 839: max_val < 0.0f ? im_max_abs(im) : max_val
ImMax_ofImage(im, max_val) == im_max_abs(im)
ImMax(im, max_val) == IF max_val < 0 THEN im_max_abs(im) ELSE max_val

\* line 840: im_max == 0.0f ? 1.0f : dcm_max_val / im_max
ScaleFactor(im, max_val) ==
    IF ImMax(im, max_val) = 0 THEN FloatOfInt(1)
    ELSE FloatDiv(dcm_max_val, ImMax(im, max_val))

\* line 858: static_cast<uint8_t>(vox * scale).  The truncated value is
\* stored when it fits in 8 bits; converting a value above 255 is undefined
\* and builds either keep the low byte or saturate.
CastUint8(t) == IF t \in 0..255 THEN {t} ELSE {t % 256, 255}

RenderVoxel(vox, scale) == CastUint8(FloatTrunc(FloatMul(vox, scale)))

NoWriteImage == [nc |-> 0, nz |-> 0, vox |-> <<>>]

\* voxel spacings <<ux, uy, uz>>, in units of 10^-7: 1.0 x 1.0 x 1.0 and
\* 0.5000004 x 0.5000004 x 3.0
Spacings == { <<10000000, 10000000, 10000000>>, <<5000004, 5000004, 30000000>> }

\* the images given to the writers: single-channel volumes of 1 x 1 x nz
\* voxels, and one three-channel image, here with spacing 1.0
WriteImages ==
    { [nc |-> 1, nz |-> Len(v), vox |-> v, u |-> <<10000000, 10000000, 10000000>>] :
         v \in SeqsBetween(-1..MaxVox, 1, MaxNz) }
    \cup { [nc |-> 3, nz |-> 1, vox |-> <<0, 0, 0>>,
             u |-> <<10000000, 10000000, 10000000>>] }

\* lines 920-924 and 945-946: the name of the file of slice i, "%0<w>d" with
\* w = ceil(log10(num_slices)), as its digits (i < 100)
SliceFileName(i, num_slices) ==
    LET num_zeros == CHOOSE k \in 0..num_slices :
                         /\ 10^k >= num_slices
                         /\ \A j \in 0..(k - 1) : 10^j < num_slices
        digits == IF i < 10 THEN <<i>> ELSE <<i \div 10, i % 10>>
        pad == IF num_zeros > Len(digits) THEN num_zeros - Len(digits) ELSE 0
    IN  [k \in 1..pad |-> 0] \o digits

\* what write_dcm_cpp puts into the data set and saves
SavedFile(path, im, meta, pixels) ==
    [path |-> path,
     \* lines 804-829: snprintf "%f" keeps six decimals (units of 10^-6)
     PixelSpacing |-> <<(im.u[1] + 5) \div 10, (im.u[2] + 5) \div 10>>,
     SliceThickness |-> (im.u[3] + 5) \div 10,
     StudyInstanceUID |-> meta.study_uid,
     SeriesInstanceUID |-> meta.series_uid,
     SOPInstanceUID |-> meta.instance_uid,
     InstanceNumber |-> meta.instance_num,
     ImageType |-> "DERIVED",
     PhotometricInterpretation |-> IF im.nc = 1 THEN "MONOCHROME2" ELSE "RGB",
     PixelRepresentation |-> 0,
     SamplesPerPixel |-> im.nc,
     BitsAllocated |-> dcm_bit_width,
     BitsStored |-> dcm_bit_width,
     HighBit |-> dcm_bit_width - 1,
     NumberOfFrames |-> im.nz,
     PixelData |-> pixels,
     xfer |-> "EXS_LittleEndianExplicit"]

InitWriteDcm ==
    /\ dcm_op = "write_dcm"
    /\ dcm_pc = "w_start"
    /\ dir_kind = "missing"
    /\ dir_entries = <<>>
    /\ DcmFresh
    /\ w_im \in WriteImages
    /\ w_max_val \in -1..MaxVox
    /\ wd_im = NoWriteImage
    /\ w_meta = NullMeta
    /\ wd_meta = NullMeta

InitWriteDcmDir ==
    /\ dcm_op = "write_dcm_dir"
    /\ dcm_pc = "wd_start"
    /\ dir_kind = "missing"
    /\ dir_entries = <<>>
    /\ DcmFresh
    /\ w_im = NoWriteImage
    /\ w_max_val = 0
    /\ wd_im \in { [im EXCEPT !.u = u] : im \in WriteImages, u \in Spacings }
    /\ w_meta = NullMeta
    /\ wd_meta \in {NullMeta, GivenMeta}

\* write_dcm returns v, to the C caller or into the slice loop of
\* write_dcm_dir_cpp
WriteReturns_success(v) ==
    /\ dcm_ret' = "SIFT3D_SUCCESS"
    /\ dcm_pc' = IF dcm_caller = "C" THEN "returned" ELSE "wd_after"
    /\ dcm_caller' = "C"
    /\ UNCHANGED <<dcm_exc, dcm_caught>>
WriteReturns(v) ==
    /\ dcm_ret' = v
    /\ dcm_pc' = IF dcm_caller = "C" THEN "returned" ELSE "wd_after"
    /\ dcm_caller' = "C"
    /\ UNCHANGED <<dcm_exc, dcm_caught>>

(* ------------------------------ write_dcm ----------------------------- *)
\* lines 637-829: the channel check and the metadata of the data set; any
\* of the checked insertions can fail
WriteDcmHeader ==
    /\ dcm_pc = "w_start"
    /\ IF w_im.nc # 1
       THEN WriteReturns("SIFT3D_FAILURE") /\ UNCHANGED <<w_meta, uids>>
       ELSE /\ w_meta' = set_meta_defaults(w_meta, uids).meta
            /\ uids' = set_meta_defaults(w_meta, uids).uids
            /\ \E inserted \in BOOLEAN :
                  IF inserted
                  THEN HelperGoes("w_alloc") /\ UNCHANGED dcm_caller
                  ELSE WriteReturns("SIFT3D_FAILURE")
    /\ UNCHANGED <<dcm_op, res, dir_kind, dir_entries, dir_pos, dicoms, im_out,
                   off_z, rd_i, w_im, w_max_val, pixelData, files_out, wd_im, wd_i>>
    /\ UNCHANGED <<matchVars, ransacVars, pyrVars, drvVars, mexVars, wd_meta, slicename>>

\* lines 831-846: new uint8_t[numPixels], which can raise std::bad_alloc
WriteDcmAlloc ==
    /\ dcm_pc = "w_alloc"
    /\ \/ HelperThrows("std::exception") /\ UNCHANGED <<res, pixelData>>
       \/ /\ HelperGoes("w_render")
          /\ res' = Acquire(res, "buf")
          /\ pixelData' = <<>>
    /\ UNCHANGED <<dcm_op, dcm_caller, dir_kind, dir_entries, dir_pos, dicoms, im_out,
                   off_z, rd_i, w_im, w_max_val, files_out, wd_im, wd_i>>
    /\ UNCHANGED <<matchVars, ransacVars, pyrVars, drvVars, mexVars, w_meta, wd_meta, uids, slicename>>

\* lines 847-859: one voxel of the render loop; a negative voxel returns
\* at once
WriteDcmRender ==
    /\ dcm_pc = "w_render"
    /\ Len(pixelData) < Len(w_im.vox)
    /\ LET vox == w_im.vox[Len(pixelData) + 1]
       IN  IF vox < 0
           THEN WriteReturns("SIFT3D_FAILURE") /\ UNCHANGED pixelData
           ELSE /\ \E b \in RenderVoxel(vox, ScaleFactor(w_im, w_max_val)) :
                     pixelData' = Append(pixelData, b)
                /\ HelperGoes("w_render")
                /\ UNCHANGED dcm_caller
    /\ UNCHANGED <<dcm_op, res, dir_kind, dir_entries, dir_pos, dicoms, im_out,
                   off_z, rd_i, w_im, w_max_val, files_out, wd_im, wd_i>>
    /\ UNCHANGED <<matchVars, ransacVars, pyrVars, drvVars, mexVars, w_meta, wd_meta, uids, slicename>>

\* lines 861-899: the pixel data goes into the data set, the buffer is
\* deleted, the transfer syntax is chosen and the file is saved; each of
\* the three library calls can fail
WriteDcmSave ==
    /\ dcm_pc = "w_render"
    /\ Len(pixelData) = Len(w_im.vox)
    /\ res' = Release(res, "buf")
    /\ \E outcome \in {"put_failed", "xfer_failed", "save_failed", "saved"} :
          IF outcome = "saved"
          THEN /\ files_out' = Append(files_out,
                                      SavedFile(IF dcm_caller = "write_dcm_dir"
                                                THEN SliceFileName(wd_i, wd_im.nz)
                                                ELSE <<>>,
                                                w_im, w_meta, pixelData))
               /\ WriteReturns("SIFT3D_SUCCESS")
          ELSE /\ files_out' = files_out
               /\ WriteReturns("SIFT3D_FAILURE")
    /\ UNCHANGED <<dcm_op, dir_kind, dir_entries, dir_pos, dicoms, im_out,
                   off_z, rd_i, w_im, w_max_val, pixelData, wd_im, wd_i>>
    /\ UNCHANGED <<matchVars, ransacVars, pyrVars, drvVars, mexVars, w_meta, wd_meta, uids, slicename>>

(* ---------------------------- write_dcm_dir --------------------------- *)
\* the slice image after the copy loop of lines 952-957 has put slice i
\* (0-based) of the volume into it; nothing else of the slice changes
SliceOf(slice, im, i) == [slice EXCEPT !.vox = <<im.vox[i + 1]>>]

\* lines 907-939: meta_new is set, the slice image is initialised by init_im
\* and resized to nx x ny x 1 x nc (927-930).  Its spacing is what init_im
\* left, whatever the volume's is: imutil.c fixes that value, here it is
\* any of Spacings.
WriteDirBegin ==
    /\ dcm_op = "write_dcm_dir"
    /\ dcm_pc = "wd_start"
    /\ \E u \in Spacings :
          w_im' = [nc |-> wd_im.nc, nz |-> 1, vox |-> <<0>>, u |-> u]
    /\ wd_meta' = set_meta_defaults(wd_meta, uids).meta
    /\ uids' = set_meta_defaults(wd_meta, uids).uids
    /\ \E resized \in BOOLEAN :
          IF resized
          THEN HelperGoes("wd_loop") /\ res' = Acquire(res, "slice")
          ELSE HelperReturns("SIFT3D_FAILURE")
               /\ res' = Release(Acquire(res, "slice"), "slice")
    /\ wd_i' = 0
    /\ UNCHANGED <<dcm_op, dcm_caller, dir_kind, dir_entries, dir_pos, dicoms, im_out,
                   off_z, rd_i, w_max_val, pixelData, files_out, wd_im>>
    /\ UNCHANGED <<matchVars, ransacVars, pyrVars, drvVars, mexVars, w_meta, slicename>>

\* lines 942-968 and 974-977: one slice is handed to write_dcm with the
\* maximum of the whole volume, a new SOPInstanceUID and the instance number
\* i + 1, or the loop is over
WriteDirSlice ==
    /\ dcm_op = "write_dcm_dir"
    /\ dcm_pc = "wd_loop"
    /\ IF wd_i < wd_im.nz
       THEN \/ /\ HelperThrows("std::exception")     \* std::string fullfile
               /\ UNCHANGED <<dcm_caller, res, w_im, w_max_val, pixelData>>
               /\ UNCHANGED <<w_meta, wd_meta, uids>>
            \/ /\ w_im' = SliceOf(w_im, wd_im, wd_i)
               /\ w_max_val' = im_max_abs(wd_im)
               /\ pixelData' = <<>>
               /\ uids' = uids + 1
               /\ wd_meta' = [wd_meta EXCEPT
                     !.instance_uid =
                         dcmGenerateUniqueIdentifier("SITE_INSTANCE_UID_ROOT", uids + 1),
                     !.instance_num = wd_i + 1]
               /\ w_meta' = wd_meta'
               /\ dcm_caller' = "write_dcm_dir"
               /\ dcm_pc' = "w_start"
               /\ dcm_ret' = "none"
               /\ UNCHANGED <<dcm_exc, dcm_caught, res>>
       ELSE /\ res' = Release(res, "slice")
            /\ HelperReturns("SIFT3D_SUCCESS")
            /\ UNCHANGED <<dcm_caller, w_im, w_max_val, pixelData>>
            /\ UNCHANGED <<w_meta, wd_meta, uids>>
    /\ UNCHANGED <<dcm_op, dir_kind, dir_entries, dir_pos, dicoms, im_out,
                   off_z, rd_i, files_out, wd_im, wd_i>>
    /\ UNCHANGED <<matchVars, ransacVars, pyrVars, drvVars, mexVars, slicename>>

\* lines 968-972: the result of write_dcm for the slice
WriteDirAfter ==
    /\ dcm_op = "write_dcm_dir"
    /\ dcm_pc = "wd_after"
    /\ IF dcm_ret # "SIFT3D_SUCCESS"
       THEN /\ res' = Release(res, "slice")
            /\ HelperReturns("SIFT3D_FAILURE")
            /\ wd_i' = wd_i
       ELSE /\ HelperGoes("wd_loop")
            /\ wd_i' = wd_i + 1
            /\ UNCHANGED res
    /\ UNCHANGED <<dcm_op, dcm_caller, dir_kind, dir_entries, dir_pos, dicoms, im_out,
                   off_z, rd_i, w_im, w_max_val, pixelData, files_out, wd_im>>
    /\ UNCHANGED <<matchVars, ransacVars, pyrVars, drvVars, mexVars, w_meta, wd_meta, uids, slicename>>

(* --------------------------- CATCH_EXCEPTIONS ------------------------- *)
\* lines 66-75: an exception that left the helper is caught by the macro of
\* the entry point that called the helper, and ret becomes SIFT3D_FAILURE.
\* An exception no clause handles leaves the entry point.
CatchExceptions ==
    /\ dcm_pc = "thrown"
    /\ IF Handled(dcm_exc)
       THEN /\ dcm_caught' = dcm_exc
            /\ dcm_exc' = "none"
            /\ dcm_ret' = "SIFT3D_FAILURE"
            /\ dcm_pc' = IF dcm_caller = "C" THEN "returned" ELSE "wd_after"
       ELSE /\ dcm_pc' = "escaped"
            /\ UNCHANGED <<dcm_exc, dcm_caught, dcm_ret>>
    /\ dcm_caller' = "C"
    /\ UNCHANGED <<dcm_op, res, dir_kind, dir_entries, dir_pos, dicoms, im_out,
                   off_z, rd_i, w_im, w_max_val, pixelData, files_out, wd_im, wd_i>>
    /\ UNCHANGED <<matchVars, ransacVars, pyrVars, drvVars, mexVars, w_meta, wd_meta, uids, slicename>>

(***************************************************************************)
(* REGISTRATION DRIVER (siftreg.c)                                         *)
(* main runs its stages in the order of the source text.  A stage that     *)
(* fails ends the process through err_exit.  Images are modelled by their  *)
(* nx, enough for the zero-padding of lines 124-131.                       *)
(***************************************************************************)
MaxArgc == 3        \* argc 1..MaxArgc
MaxDrvDim == 2      \* nx 1..MaxDrvDim of a loaded image
MaxErrStatus == 2   \* err_exit ends the process with a status 1..MaxErrStatus

\* the objects main declares (lines 40-48)
DrvObjects ==
    {"src", "ref", "srcp", "refp", "srcp_reg", "kp_src", "kp_ref", "desc_src",
     "desc_ref", "match_src", "match_ref", "A", "matches"}

\* the stages of main in the order of the source text (lines 72-294)
StageOrder_matchEarly ==
    <<"init", "load_ref", "make_src", "pad", "free_orig", "init_detector",
      "init_extractor", "detect_ref", "extract_ref", "detect_src", "match",
      "extract_src", "to_mat", "ransac", "resample", "write">>
StageOrder_detectFirst ==
    <<"init", "load_ref", "make_src", "pad", "free_orig", "init_detector",
      "init_extractor", "detect_ref", "detect_src", "extract_ref", "extract_src",
      "match", "to_mat", "ransac", "resample", "write">>
StageOrder ==
    <<"init", "load_ref", "make_src", "pad", "free_orig", "init_detector",
      "init_extractor", "detect_ref", "extract_ref", "detect_src", "extract_src",
      "match", "to_mat", "ransac", "resample", "write">>

\* what follows stage s: the next stage, or return 0 after the last (line 428)
After(s) ==
    LET i == CHOOSE k \in 1..Len(StageOrder) : StageOrder[k] = s
    IN  IF i = Len(StageOrder) THEN "return" ELSE StageOrder[i + 1]

\* line 55: if (argc < 2)
UsageError_never(argc) == argc < 1
UsageError(argc) == argc < 2

\* lines 59-68: one path means synthetic mode
SynMode(argc) == IF argc < 3 THEN 1 ELSE 0

\* lines 61, 65-66, 70: which argv[] is the reference, which the source
RefPathArg == 1
SrcPathArg == 2

\* err_exit(str): prints and ends the process with a non-zero status
ErrExitStatuses == 1..MaxErrStatus

\* the objects a stage reads
StageReads(s) ==
    CASE s = "make_src"    -> IF syn_mode = 1 THEN {"ref", "A"} ELSE {}
      [] s = "pad"         -> {"src", "ref"}
      [] s = "detect_ref"  -> {"refp"}
      [] s = "detect_src"  -> {"srcp"}
      [] s = "match"       -> {"desc_src", "desc_ref"}
      [] s = "to_mat"      -> {"desc_src", "desc_ref", "matches"}
      [] s = "ransac"      -> {"match_src", "match_ref"}
      [] s = "resample"    -> {"srcp"}
      [] s = "write"       -> {"srcp_reg"}
      [] OTHER             -> {}

\* the objects a stage initialises or receives from its callee
StageAcquires(s) ==
    CASE s = "init"  -> DrvObjects \ {"matches"}
      [] s = "match" -> {"matches"}
      [] OTHER       -> {}

\* the objects a stage releases (im_free, lines 134-135)
StageReleases(s) == IF s = "free_orig" THEN {"src", "ref"} ELSE {}

NoObjs == [o \in DrvObjects |-> [acq |-> 0, rel |-> 0]]

ObjsAfter(objs, s) ==
    [o \in DrvObjects |->
        [acq |-> objs[o].acq + (IF o \in StageAcquires(s) THEN 1 ELSE 0),
         rel |-> objs[o].rel + (IF o \in StageReleases(s) THEN 1 ELSE 0)]]

DrvIdle ==
    /\ drv_argc = 0
    /\ drv_pc = "idle"
    /\ drv_status = -1
    /\ drv_usage = FALSE
    /\ syn_mode = -1
    /\ drv_reads = <<>>
    /\ drv_dims = [src |-> 0, ref |-> 0, srcp |-> 0, refp |-> 0]
    /\ drv_trace = <<>>
    /\ drv_objs = NoObjs
    /\ drv_uaf = FALSE

\* the process starts main with some argc
InitDriver ==
    /\ drv_argc \in 1..MaxArgc
    /\ drv_pc = "parse"
    /\ drv_status = -1
    /\ drv_usage = FALSE
    /\ syn_mode = -1
    /\ drv_reads = <<>>
    /\ drv_dims = [src |-> 0, ref |-> 0, srcp |-> 0, refp |-> 0]
    /\ drv_trace = <<>>
    /\ drv_objs = NoObjs
    /\ drv_uaf = FALSE

\* lines 54-70: usage and return 1, or the mode
DrvParse ==
    /\ drv_pc = "parse"
    /\ IF UsageError(drv_argc)
       THEN /\ drv_usage' = TRUE
            /\ drv_status' = 1
            /\ drv_pc' = "returned"
            /\ UNCHANGED syn_mode
       ELSE /\ syn_mode' = SynMode(drv_argc)
            /\ drv_pc' = StageOrder[1]
            /\ UNCHANGED <<drv_usage, drv_status>>
    /\ UNCHANGED <<drv_argc, drv_reads, drv_dims, drv_trace, drv_objs, drv_uaf>>
    /\ UNCHANGED <<matchVars, ransacVars, pyrVars, dcmVars, mexVars>>

\* stage s runs: it reads and acquires and releases its objects, then
\* either succeeds and main goes on, or fails and err_exit ends the process
DrvStage(s, ok) ==
    /\ drv_pc = s
    /\ drv_trace' = Append(drv_trace, [stage |-> s, ok |-> ok])
    /\ drv_uaf' = (drv_uaf \/ \E o \in StageReads(s) : drv_objs[o].rel > 0)
    /\ IF ok
       THEN /\ drv_objs' = ObjsAfter(drv_objs, s)
            /\ drv_pc' = IF After(s) = "return" THEN "returned" ELSE After(s)
            /\ drv_status' = IF After(s) = "return" THEN 0 ELSE drv_status
       ELSE /\ UNCHANGED drv_objs
            /\ drv_pc' = "exited"
            /\ drv_status' \in ErrExitStatuses
    /\ UNCHANGED <<drv_argc, drv_usage, syn_mode>>
    /\ UNCHANGED <<matchVars, ransacVars, pyrVars, dcmVars, mexVars>>

\* lines 91-93: read_nii(ref_path, &ref)
DrvLoadRef ==
    /\ \E ok \in BOOLEAN :
          /\ DrvStage("load_ref", ok)
          /\ \E n \in 1..MaxDrvDim :
                drv_dims' = IF ok THEN [drv_dims EXCEPT !.ref = n] ELSE drv_dims
    /\ drv_reads' = Append(drv_reads, [arg |-> RefPathArg, into |-> "ref"])

\* lines 95-121: the source is the reference rotated by 5 degrees
\* (im_inv_transform keeps the size), or is read from src_path
DrvMakeSrc ==
    /\ \E ok \in BOOLEAN :
          /\ DrvStage("make_src", ok)
          /\ \E n \in 1..MaxDrvDim :
                drv_dims' =
                    IF ~ok THEN drv_dims
                    ELSE IF syn_mode = 1 THEN [drv_dims EXCEPT !.src = drv_dims.ref]
                    ELSE [drv_dims EXCEPT !.src = n]
    /\ drv_reads' = IF syn_mode = 1 THEN drv_reads
                    ELSE Append(drv_reads, [arg |-> SrcPathArg, into |-> "src"])

\* lines 123-131: both images are zero-padded to the larger size
DrvPad ==
    /\ \E ok \in BOOLEAN :
          /\ DrvStage("pad", ok)
          /\ drv_dims' =
                IF ~ok THEN drv_dims
                ELSE LET nx == IF drv_dims.src >= drv_dims.ref
                               THEN drv_dims.src ELSE drv_dims.ref
                     IN  [drv_dims EXCEPT !.srcp = nx, !.refp = nx]
    /\ UNCHANGED drv_reads

\* lines 133-135: im_free(&src); im_free(&ref) -- cannot fail
DrvFreeOrig ==
    /\ DrvStage("free_orig", TRUE)
    /\ drv_dims' = [drv_dims EXCEPT !.src = 0, !.ref = 0]
    /\ UNCHANGED drv_reads

\* every other stage is one library call whose failure is fatal: the
\* initialisation (72-89), init_SIFT3D_Detector (138), init_SIFT3D_Extractor
\* (142), detection and extraction for the reference (146-150) and the
\* source (189-193), SIFT3D_nn_match_fb (227), SIFT3D_matches_to_Mat_rm
\* (230), find_tform_ransac (277), im_inv_transform (282) and write_nii
\* (293), after which main returns 0 (428)
DrvCall ==
    /\ \E s \in {"init", "init_detector", "init_extractor", "detect_ref",
                  "extract_ref", "detect_src", "extract_src", "match", "to_mat",
                  "ransac", "resample", "write"} :
          \E ok \in BOOLEAN : DrvStage(s, ok)
    /\ UNCHANGED <<drv_reads, drv_dims>>

(***************************************************************************)
(* KEYPOINT DETECTOR                                                       *)
(* The detector scans the interior voxels of the interior DoG levels of    *)
(* every octave, refines each extremum to sub-voxel accuracy and rescales  *)
(* the survivors to the base frame.  Offsets are held in quarters of a     *)
(* voxel and base-frame coordinates in eighths of a base voxel, so that    *)
(* the threshold 0.5 and the factor 2^(-1) of octave 0 stay integers.      *)
(***************************************************************************)
MinDetDim == 6      \* input dimensions MinDetDim..MaxDetDim
MaxDetDim == 7

\* the refinement retries up to 5 iterations
MaxRefineIter == 5

\* an interior voxel of a level of dimensions d has all 26 neighbours
InteriorVoxel(d, x) == \A a \in 1..3 : 1 <= x[a] /\ x[a] <= d[a] - 2

\* the DoG level l (0-based) of octave o (0-based)
DogLevel(o, l) == dog[o + 1][l + 1]

\* the extrema the scan is taken to meet: the two extreme interior voxels
ExtremumProbes(d) ==
    { x \in { <<1, 1, 1>>, <<d[1] - 2, d[2] - 2, d[3] - 2>> } : InteriorVoxel(d, x) }

\* what solving the 4x4 system can give: a singular system, or an offset
\* <<dx, dy, dz, ds>> in quarters of a voxel
SolveOutcomes ==
    { [singular |-> TRUE, off |-> <<0, 0, 0, 0>>] }
        \cup { [singular |-> FALSE, off |-> v] :
                  v \in { <<0, 0, 0, 0>>, <<2, -2, 1, -2>>, <<3, 0, 0, 0>>,
                          <<-3, -3, 0, 0>>, <<0, 0, 0, 3>> } }

\* converged: no coordinate offset exceeds 0.5
Converged_any(off) == TRUE
Converged(off) == \A a \in 1..4 : Abs(off[a]) <= 2

\* one step in the direction of an offset that exceeds 0.5
ShiftStep(v) == IF v > 2 THEN 1 ELSE IF v < -2 THEN -1 ELSE 0

\* octave-o coordinate p (in quarters) times 2^(o-1), in eighths of a base
\* voxel: (p / 4) * 2^(o-1) = p * 2^o / 8
RescaleToBase_noUpsample(o, p) == p * Pow2(o + 1)
RescaleToBase(o, p) == p * Pow2(o)

\* the keypoint a converged candidate becomes
Keypoint(c) ==
    [o |-> c.o, l |-> c.l, x |-> c.x, off |-> c.off,
     xd |-> [a \in 1..3 |-> RescaleToBase(c.o, 4 * c.x[a] + c.off[a])]]

InitDetInputs ==
    /\ pyr_in \in [1..3 -> MinDetDim..MaxDetDim]
    /\ pyr_par \in [num_octaves : 1..MaxOctaves, num_intervals : 1..MaxIntervals]
    /\ gss = <<>>
    /\ dog = <<>>
    /\ pyr_pc = "start"
    /\ cand = NoCand
    /\ det = [ret |-> "running", kps |-> {}]

\* the scan meets an extremum that passed the contrast and edge tests
DetCandidate ==
    /\ pyr_pc = "done"
    /\ det.ret = "running"
    /\ cand = NoCand
    /\ \E o \in 0..(Len(dog) - 1) : \E l \in 1..pyr_par.num_intervals :
          \E x \in ExtremumProbes(DogLevel(o, l)) :
             cand' = [state |-> "refining", why |-> "none", o |-> o, l |-> l,
                      x |-> x, off |-> <<0, 0, 0, 0>>, iter |-> 0]
    /\ UNCHANGED <<pyr_in, pyr_par, gss, dog, pyr_pc, det>>
    /\ UNCHANGED <<matchVars, ransacVars, dcmVars, drvVars, mexVars>>

\* one solve-and-shift iteration of the sub-voxel refinement: a singular
\* system drops the candidate, a converged offset keeps it, any other offset
\* shifts the index one step (the DoG level index too, an interior level
\* having both neighbours) and retries, up to MaxRefineIter iterations
DetRefine ==
    /\ cand.state = "refining"
    /\ \E sol \in SolveOutcomes :
          LET x2 == [a \in 1..3 |-> cand.x[a] + ShiftStep(sol.off[a])]
              l2 == cand.l + ShiftStep(sol.off[4])
              n  == cand.iter + 1
          IN  cand' =
                IF sol.singular
                THEN [cand EXCEPT !.state = "dropped", !.why = "singular", !.iter = n]
                ELSE IF Converged(sol.off)
                THEN [cand EXCEPT !.state = "kept", !.off = sol.off, !.iter = n]
                ELSE IF ~(/\ InteriorVoxel(DogLevel(cand.o, cand.l), x2)
                          /\ 1 <= l2 /\ l2 <= pyr_par.num_intervals)
                THEN [cand EXCEPT !.state = "dropped", !.why = "left_interior",
                                  !.iter = n]
                ELSE IF n >= MaxRefineIter
                THEN [cand EXCEPT !.state = "dropped", !.why = "no_convergence",
                                  !.x = x2, !.l = l2, !.iter = n]
                ELSE [cand EXCEPT !.x = x2, !.l = l2, !.iter = n]
    /\ UNCHANGED <<pyr_in, pyr_par, gss, dog, pyr_pc, det>>
    /\ UNCHANGED <<matchVars, ransacVars, dcmVars, drvVars, mexVars>>

\* the detector returns: dropped candidates leave no trace, survivors are
\* rescaled to the base frame
DetReturn ==
    /\ pyr_pc = "done"
    /\ det.ret = "running"
    /\ cand.state \in {"none", "kept", "dropped"}
    /\ det' = [ret |-> "SIFT3D_SUCCESS",
               kps |-> IF cand.state = "kept" THEN {Keypoint(cand)} ELSE {}]
    /\ UNCHANGED <<pyr_in, pyr_par, gss, dog, pyr_pc, cand>>
    /\ UNCHANGED <<matchVars, ransacVars, dcmVars, drvVars, mexVars>>

(***************************************************************************)
(* The MEX image reader: mexFunction of wrappers/matlab/mexImRead3D.c      *)
(***************************************************************************)
MaxNrhs == 2        \* nrhs 0..MaxNrhs
MaxNlhs == 2        \* nlhs 0..MaxNlhs
MaxMexDim == 2      \* nx, ny, nz 1..MaxMexDim of an image im_read loads

MexIdle ==
    /\ mex_nrhs = 0
    /\ mex_nlhs = 0
    /\ mex_arg = "none"
    /\ mex_pc = "idle"
    /\ mex_im = [inits |-> 0, frees |-> 0, dims |-> <<0, 0, 0>>]
    /\ mex_read = "none"
    /\ mex_err = "none"
    /\ mex_plhs = "none"

\* err_msg(name, msg) and err_msgu(name, msg) of mexutil: the error with
\* identifier name is raised (mexErrMsgIdAndTxt), which ends mexFunction;
\* the statements after the call are not reached
err_msg(name) ==
    /\ mex_err' = name
    /\ mex_pc' = "error"

\* the switch on im_read's return value (lines 47-61): the identifier
\* raised for a return value other than SIFT3D_SUCCESS
ReadErrorId_unexpected(ret) == "main:unexpected"
ReadErrorId(ret) ==
    CASE ret = "SIFT3D_FILE_DOES_NOT_EXIST" -> "main:dne"
      [] ret = "SIFT3D_UNSUPPORTED_FILE_TYPE" -> "main:unsupportedType"
      [] OTHER -> "main:unexpected"

\* lines 26-33: "Verify the number of inputs", "Verify the number of outputs"
MexCheckArgs ==
    /\ mex_pc = "args"
    /\ IF mex_nrhs # 1 THEN err_msg("main:numInputs")
       ELSE IF mex_nlhs > 1 THEN err_msg("main:numOutputs")
       ELSE mex_pc' = "init" /\ UNCHANGED mex_err
    /\ UNCHANGED <<mex_nrhs, mex_nlhs, mex_arg, mex_im, mex_read, mex_plhs>>
    /\ UNCHANGED <<matchVars, ransacVars, pyrVars, dcmVars, drvVars>>

\* lines 35-44: mxPath = prhs[0], init_im(&im), and mxArrayToString, which
\* returns NULL for an input that is not a char array and when it cannot
\* allocate; CLEAN_AND_QUIT is im_free(&im) followed by err_msgu
MexInit ==
    /\ mex_pc = "init"
    /\ \E path \in IF mex_arg = "char" THEN {"string", "NULL"} ELSE {"NULL"} :
          IF path = "NULL"
          THEN /\ mex_im' = [mex_im EXCEPT !.inits = @ + 1, !.frees = @ + 1]
               /\ err_msg("main:getPath")
          ELSE /\ mex_im' = [mex_im EXCEPT !.inits = @ + 1]
               /\ mex_pc' = "read"
               /\ UNCHANGED mex_err
    /\ UNCHANGED <<mex_nrhs, mex_nlhs, mex_arg, mex_read, mex_plhs>>
    /\ UNCHANGED <<matchVars, ransacVars, pyrVars, dcmVars, drvVars>>

\* lines 46-61: im_read(path, &im) and the switch on what it returns; the
\* return value and the image loaded are the environment's choice
MexRead ==
    /\ mex_pc = "read"
    /\ \E ret \in {"SIFT3D_SUCCESS", "SIFT3D_FAILURE", "SIFT3D_FILE_DOES_NOT_EXIST",
                    "SIFT3D_UNSUPPORTED_FILE_TYPE", "SIFT3D_WRAPPER_NOT_COMPILED"} :
          /\ mex_read' = ret
          /\ IF ret = "SIFT3D_SUCCESS"
             THEN /\ \E nx, ny, nz \in 1..MaxMexDim :
                       mex_im' = [mex_im EXCEPT !.dims = <<nx, ny, nz>>]
                  /\ mex_pc' = "convert"
                  /\ UNCHANGED mex_err
             ELSE /\ mex_im' = [mex_im EXCEPT !.frees = @ + 1]
                  /\ err_msg(ReadErrorId(ret))
    /\ UNCHANGED <<mex_nrhs, mex_nlhs, mex_arg, mex_plhs>>
    /\ UNCHANGED <<matchVars, ransacVars, pyrVars, dcmVars, drvVars>>

\* lines 63-66: "Convert the output to a MATLAB array"
MexConvert ==
    /\ mex_pc = "convert"
    /\ \/ /\ mex_plhs' = "array"
          /\ mex_pc' = "cleanup"
          /\ UNCHANGED <<mex_im, mex_err>>
       \/ /\ mex_plhs' = "NULL"
          /\ mex_im' = [mex_im EXCEPT !.frees = @ + 1]
          /\ err_msg("main:im2mx")
    /\ UNCHANGED <<mex_nrhs, mex_nlhs, mex_arg, mex_read>>
    /\ UNCHANGED <<matchVars, ransacVars, pyrVars, dcmVars, drvVars>>

\* lines 68-69: "Clean up"
MexCleanup ==
    /\ mex_pc = "cleanup"
    /\ mex_im' = [mex_im EXCEPT !.frees = @ + 1]
    /\ mex_pc' = "returned"
    /\ UNCHANGED <<mex_nrhs, mex_nlhs, mex_arg, mex_read, mex_err, mex_plhs>>
    /\ UNCHANGED <<matchVars, ransacVars, pyrVars, dcmVars, drvVars>>

\* MATLAB calls mexFunction with some numbers of inputs and outputs
InitMex ==
    /\ MatchIdle /\ RansacIdle /\ PyrIdle /\ DcmIdle /\ DrvIdle
    /\ mex_nrhs \in 0..MaxNrhs
    /\ mex_nlhs \in 0..MaxNlhs
    /\ mex_arg \in IF mex_nrhs = 0 THEN {"none"} ELSE {"char", "other"}
    /\ mex_pc = "args"
    /\ mex_im = [inits |-> 0, frees |-> 0, dims |-> <<0, 0, 0>>]
    /\ mex_read = "none"
    /\ mex_err = "none"
    /\ mex_plhs = "none"

NextMex == MexCheckArgs \/ MexInit \/ MexRead \/ MexConvert \/ MexCleanup

SpecMex == InitMex /\ [][NextMex]_vars


(***************************************************************************)
(* SPECIFICATIONS                                                          *)
(***************************************************************************)
\* the forward/backward matcher as the driver calls it
InitMatch == InitMatchInputs /\ RansacIdle /\ PyrIdle /\ DcmIdle /\ DrvIdle /\ MexIdle

NextMatch == MatchFeatures \/ MatchReverse

SpecMatch == InitMatch /\ [][NextMatch]_vars

\* the forward pass on one query descriptor
InitRatio == InitRatioInputs /\ RansacIdle /\ PyrIdle /\ DcmIdle /\ DrvIdle /\ MexIdle

NextRatio == ForwardPass

SpecRatio == InitRatio /\ [][NextRatio]_vars

\* the transform fitter, run twice on the same input
InitRansac == MatchIdle /\ InitRansacInputs /\ PyrIdle /\ DcmIdle /\ DrvIdle /\ MexIdle

NextRansac == RansacStart \/ RansacIterate \/ RansacFinish \/ RansacAgain

SpecRansac == InitRansac /\ [][NextRansac]_vars

\* the pyramid builder
InitPyr == MatchIdle /\ RansacIdle /\ InitPyrInputs /\ DcmIdle /\ DrvIdle /\ MexIdle

NextPyr == PyrBase \/ PyrGssLevel \/ PyrDog \/ PyrNextOctave

SpecPyr == InitPyr /\ [][NextPyr]_vars

\* the detector on the pyramids of one volume
InitDet == MatchIdle /\ RansacIdle /\ InitDetInputs /\ DcmIdle /\ DrvIdle /\ MexIdle

NextDet ==
    \/ PyrBase \/ PyrGssLevel \/ PyrDog \/ PyrNextOctave
    \/ DetCandidate \/ DetRefine \/ DetReturn

SpecDet == InitDet /\ [][NextDet]_vars

\* one call of one of the four DICOM entry points
InitDcm ==
    /\ MatchIdle /\ RansacIdle /\ PyrIdle /\ DrvIdle /\ MexIdle
    /\ InitReadDcm \/ InitReadDcmDir \/ InitWriteDcm \/ InitWriteDcmDir

NextDcm ==
    \/ ReadDcm
    \/ ReadDirOpen
    \/ ReadDirScan
    \/ ReadDirVerify
    \/ ReadDirCopy
    \/ WriteDcmHeader
    \/ WriteDcmAlloc
    \/ WriteDcmRender
    \/ WriteDcmSave
    \/ WriteDirBegin
    \/ WriteDirSlice
    \/ WriteDirAfter
    \/ CatchExceptions

SpecDcm == InitDcm /\ [][NextDcm]_vars

(* ------------------- write_dcm_dir, then read_dcm_dir ------------------ *)
MaxRtNz == 3        \* slices 1..MaxRtNz of the volume written and read back

\* write_dcm_dir on a single-channel volume without negative voxels, with
\* meta NULL, into an empty directory
InitRoundTrip ==
    /\ MatchIdle /\ RansacIdle /\ PyrIdle /\ DrvIdle /\ MexIdle
    /\ dcm_op = "write_dcm_dir"
    /\ dcm_pc = "wd_start"
    /\ dir_kind = "dir"
    /\ dir_entries = <<>>
    /\ DcmFresh
    /\ w_im = NoWriteImage
    /\ w_max_val = 0
    /\ wd_im \in { [nc |-> 1, nz |-> Len(v), vox |-> v,
                     u |-> <<10000000, 10000000, 10000000>>] :
                       v \in SeqsBetween({0, MaxVox}, 1, MaxRtNz) }
    /\ w_meta = NullMeta
    /\ wd_meta = NullMeta

\* read_dcm_dir on the directory write_dcm_dir has filled: readdir yields
\* the saved files in any order; each has the DICOM extension and the
\* attributes write_dcm_cpp stored ("%f" spacings are read back in units
\* of 10^-6; the 1 x 1 slice is 1 column, 1 row)
RoundTripRead ==
    /\ dcm_op = "write_dcm_dir"
    /\ dcm_pc = "returned"
    /\ dcm_ret = "SIFT3D_SUCCESS"
    /\ dcm_op' = "read_dcm_dir"
    /\ dcm_pc' = "rd_start"
    /\ dcm_ret' = "none"
    /\ res' = NoRes
    /\ dir_kind' = "dir"
    /\ \E p \in IndexPerms(Len(files_out)) :
          dir_entries' =
              [i \in 1..Len(files_out) |->
                  LET f == files_out[p[i]]
                  IN  [fmt |-> "DICOM", defect |-> "none",
                       meta |-> [filename |-> 0,
                                 seriesUID |-> f.SeriesInstanceUID,
                                 instance |-> f.InstanceNumber,
                                 nx |-> 1, ny |-> 1, nz |-> f.NumberOfFrames,
                                 nc |-> f.SamplesPerPixel,
                                 u |-> <<f.PixelSpacing[1] * 10, f.PixelSpacing[2] * 10,
                                         f.SliceThickness * 10>>,
                                 valid |-> TRUE]]]
    /\ UNCHANGED <<dcm_exc, dcm_caught, dcm_caller, dir_pos, dicoms, im_out, off_z, rd_i,
                   w_im, w_max_val, pixelData, files_out, wd_im, wd_i>>
    /\ UNCHANGED <<matchVars, ransacVars, pyrVars, drvVars, mexVars, w_meta, wd_meta, uids, slicename>>

NextRoundTrip ==
    \/ WriteDirBegin
    \/ WriteDirSlice
    \/ WriteDcmHeader
    \/ WriteDcmAlloc
    \/ WriteDcmRender
    \/ WriteDcmSave
    \/ WriteDirAfter
    \/ RoundTripRead
    \/ ReadDirOpen
    \/ ReadDirScan
    \/ ReadDirVerify
    \/ ReadDirCopy
    \/ CatchExceptions

SpecRoundTrip == InitRoundTrip /\ [][NextRoundTrip]_vars

\* one run of the registration driver
InitDrv == MatchIdle /\ RansacIdle /\ PyrIdle /\ DcmIdle /\ InitDriver /\ MexIdle

NextDrv ==
    \/ DrvParse
    \/ DrvLoadRef
    \/ DrvMakeSrc
    \/ DrvPad
    \/ DrvFreeOrig
    \/ DrvCall

SpecDrv == InitDrv /\ [][NextDrv]_vars

(***************************************************************************)
(* CLAIMS                                                                  *)
(***************************************************************************)

\* C1 -- Match symmetry under cross-check: whenever the driver's matcher
\* reports match(src->ref)[i] = j with j >= 0, the same matcher run in the
\* reverse direction on the same stores reports match(ref->src)[j] = i,
\* and j's own forward pass over the source store selects i.
C1_MatchSymmetry ==
    match_pc = "reversed" =>
        \A i \in 1..Len(matches) :
            matches[i] >= 0 =>
                /\ matches[i] + 1 \in 1..Len(desc_ref)
                /\ matches_rev[matches[i] + 1] = i - 1
                /\ SIFT3D_nn_match(desc_ref, desc_src, <<8, 10>>)[matches[i] + 1] = i - 1

\* a run where one pair was kept and the cross-check dropped another pair
\* that the forward pass alone had matched
C1_Witness ==
    /\ match_pc = "reversed"
    /\ \E i \in 1..Len(matches) : matches[i] >= 0
    /\ \E i \in 1..Len(matches) :
          matches[i] = -1 /\ SIFT3D_nn_match(desc_src, desc_ref, <<8, 10>>)[i] >= 0

C3_RansacFailure ==
    LET n == Len(pts_src)
        below == ran_best.count * ran.min_inlier_ratio[2] < ran.min_inlier_ratio[1] * n
    IN  /\ ran_result.err # "none" => ran_iter = ran.num_iter
        /\ ran_pc = "done" =>
              /\ ran_iter = ran.num_iter
              /\ (ran_result.err = "ERR_INSUFFICIENT_INLIERS") <=> below
              /\ (ran_result.err = "OK") <=> ~below
        /\ ran_result.err = "OK" =>
              /\ ran_result.inliers * ran.min_inlier_ratio[2]
                    >= ran.min_inlier_ratio[1] * n
              /\ ran_result.inliers =
                    Cardinality(Inliers(pts_src, pts_ref, ran_best.t, ran.err_thresh))

\* a run of two iterations that ended with ERR_INSUFFICIENT_INLIERS
C3_Witness ==
    /\ ran_pc = "done"
    /\ ran.num_iter = 2
    /\ ran_iter = 2
    /\ ran_result.err = "ERR_INSUFFICIENT_INLIERS"

C5_PyramidShape ==
    /\ \A o \in 1..Len(gss) : \A l \in 1..Len(gss[o]) :
          gss[o][l] = <<(2 * pyr_in[1]) \div Pow2(o - 1),
                        (2 * pyr_in[2]) \div Pow2(o - 1),
                        (2 * pyr_in[3]) \div Pow2(o - 1)>>
    /\ \A o \in 1..Len(dog) :
          /\ Len(gss[o]) = pyr_par.num_intervals + 3
          /\ Len(dog[o]) = pyr_par.num_intervals + 2
          /\ \A l \in 1..Len(dog[o]) :
                dog[o][l] = gss[o][l] /\ dog[o][l] = gss[o][l + 1]
    /\ pyr_pc = "done" =>
          /\ Len(gss) = pyr_par.num_octaves
          /\ Len(dog) = pyr_par.num_octaves
          /\ (pyr_in = <<100, 80, 60>> /\ pyr_par.num_intervals = 3
                 /\ pyr_par.num_octaves = 4) =>
                /\ [o \in 1..4 |-> gss[o][1]] =
                      << <<200, 160, 120>>, <<100, 80, 60>>,
                         <<50, 40, 30>>, <<25, 20, 15>> >>
                /\ \A o \in 1..4 : Len(gss[o]) = 6 /\ Len(dog[o]) = 5

\* the finished pyramid of scenario 2
C5_Witness ==
    /\ pyr_pc = "done"
    /\ pyr_in = <<100, 80, 60>>
    /\ pyr_par = [num_octaves |-> 4, num_intervals |-> 3]
    /\ Len(dog) = 4

C7_SeriesMembership ==
    (dcm_op = "read_dcm_dir" /\ dcm_pc = "returned") =>
        LET F == { k \in 1..Len(dir_entries) : dir_entries[k].fmt = "DICOM" }
            uid(k) == dir_entries[k].meta.seriesUID
        IN  /\ dcm_ret = "SIFT3D_SUCCESS" =>
                  /\ dir_kind = "dir"
                  /\ F # {}
                  /\ \A k \in F : dir_entries[k].meta.valid
                  /\ \A a, b \in F : uid(a) = uid(b)
            /\ (\E a, b \in F : uid(a) # uid(b)) => dcm_ret = "SIFT3D_FAILURE"
            /\ F = {} => dcm_ret = "SIFT3D_FAILURE"
            /\ (\E k \in F : ~dir_entries[k].meta.valid) => dcm_ret = "SIFT3D_FAILURE"

\* two valid slices of equal dimensions and different series were scanned
\* without an exception, and the call failed
C7_Witness ==
    /\ dcm_op = "read_dcm_dir"
    /\ dcm_pc = "returned"
    /\ dcm_ret = "SIFT3D_FAILURE"
    /\ dcm_caught = "none"
    /\ Len(dicoms) = 2
    /\ dicoms[1].valid
    /\ dicoms[2].valid
    /\ dicoms[1].seriesUID # dicoms[2].seriesUID
    /\ dicoms[1].nx = dicoms[2].nx
    /\ dicoms[1].ny = dicoms[2].ny

\* C8 -- 8-bit scaling on write: for every image write_dcm accepts and every
\* max_val (negative: the image's maximum absolute value), with m the
\* scaling maximum each stored pixel is trunc(v * 255 / m) (v if m = 0) and
\* lies in 0..255; the file has 8 bits allocated and stored, unsigned
\* pixels, MONOCHROME2 and the explicit little-endian transfer syntax.
C8_EightBitScaling ==
    (dcm_op = "write_dcm" /\ dcm_pc = "returned" /\ dcm_ret = "SIFT3D_SUCCESS") =>
        /\ Len(files_out) = 1
        /\ LET f == files_out[1]
               m == IF w_max_val < 0 THEN im_max_abs(w_im) ELSE w_max_val
           IN  /\ Len(f.PixelData) = Len(w_im.vox)
               /\ \A i \in 1..Len(f.PixelData) :
                     /\ f.PixelData[i] \in 0..255
                     /\ f.PixelData[i] =
                           IF m = 0 THEN w_im.vox[i] ELSE (w_im.vox[i] * 255) \div m
               /\ f.BitsAllocated = 8
               /\ f.BitsStored = 8
               /\ f.HighBit = 7
               /\ f.PixelRepresentation = 0
               /\ f.PhotometricInterpretation = "MONOCHROME2"
               /\ f.xfer = "EXS_LittleEndianExplicit"

\* C9 -- Error propagation: each of read_dcm, read_dcm_dir, write_dcm and
\* write_dcm_dir returns SIFT3D_SUCCESS or SIFT3D_FAILURE; an exception
\* thrown inside is caught and becomes SIFT3D_FAILURE; none escapes to the
\* caller and no failure ends the process.
C9_ErrorPropagation ==
    /\ dcm_pc \notin {"escaped", "aborted"}
    /\ dcm_pc = "returned" =>
          /\ dcm_ret \in {"SIFT3D_SUCCESS", "SIFT3D_FAILURE"}
          /\ dcm_exc = "none"
          /\ dcm_caught # "none" => dcm_ret = "SIFT3D_FAILURE"
    /\ dcm_pc = "thrown" => (dcm_exc \in Exceptions /\ Handled(dcm_exc))

\* read_dcm_dir returned after an exception that is not a std::exception
C9_Witness ==
    /\ dcm_op = "read_dcm_dir"
    /\ dcm_pc = "returned"
    /\ dcm_caught = "unknown"
    /\ dcm_ret = "SIFT3D_FAILURE"

\* C10 -- Release on every exit path: when read_dcm_dir, write_dcm or
\* write_dcm_dir has returned, with SUCCESS or FAILURE, the directory
\* handle, the temporary slice image and the 8-bit render buffer have each
\* been released exactly as often as acquired.
C10_ReleaseOnExit ==
    (dcm_op \in {"read_dcm_dir", "write_dcm", "write_dcm_dir"} /\ dcm_pc = "returned") =>
        \A r \in Resources : res[r].rel = res[r].acq

\* C11 -- Pipeline stage ordering in the driver: for each image detection
\* precedes extraction; matching starts only after both descriptor stores
\* were extracted; RANSAC only after matching and the conversion to
\* coordinate matrices; resampling only after RANSAC returned a transform;
\* a stage that fails is the last stage of the run.
C11_StageOrdering ==
    LET Before(a, b) ==
            \A j \in 1..Len(drv_trace) :
                drv_trace[j].stage = b =>
                    \E k \in 1..(j - 1) :
                        drv_trace[k].stage = a /\ drv_trace[k].ok
    IN  /\ Before("detect_ref", "extract_ref")
        /\ Before("detect_src", "extract_src")
        /\ Before("extract_ref", "match")
        /\ Before("extract_src", "match")
        /\ Before("match", "to_mat")
        /\ Before("match", "ransac")
        /\ Before("to_mat", "ransac")
        /\ Before("ransac", "resample")
        /\ \A j \in 1..Len(drv_trace) :
              ~drv_trace[j].ok => (j = Len(drv_trace) /\ drv_pc = "exited")
        /\ \A j, k \in 1..Len(drv_trace) :
              drv_trace[j].stage = drv_trace[k].stage => j = k

\* a run in which the transform fit failed after every earlier stage succeeded
C11_Witness ==
    /\ drv_pc = "exited"
    /\ Len(drv_trace) = 14
    /\ drv_trace[14] = [stage |-> "ransac", ok |-> FALSE]
    /\ drv_trace[12] = [stage |-> "match", ok |-> TRUE]

\* C12 -- Driver exit codes: the driver returns 1 with the usage text printed
\* and no file read iff argc < 2; it returns 0 only when every stage up to
\* the writing of the registered image succeeded; a failed stage ends the
\* run with a non-zero status.
C12_ExitCodes ==
    /\ drv_usage => (drv_argc < 2 /\ drv_pc = "returned")
    /\ drv_pc \in {"returned", "exited"} =>
          /\ (drv_argc < 2) <=> (drv_status = 1 /\ drv_usage /\ drv_reads = <<>>)
          /\ drv_status >= 0
          /\ drv_status = 0 =>
                /\ Len(drv_trace) = 16
                /\ \A j \in 1..16 : drv_trace[j].ok
                /\ drv_trace[16].stage = "write"
                /\ \A st \in {"init", "load_ref", "make_src", "pad", "detect_ref",
                              "extract_ref", "detect_src", "extract_src", "match",
                              "to_mat", "ransac", "resample", "write"} :
                      \E j \in 1..16 : drv_trace[j].stage = st
          /\ (\E j \in 1..Len(drv_trace) : ~drv_trace[j].ok) => drv_status > 0
    /\ drv_pc \notin {"returned", "exited", "idle"} => drv_status = -1

\* main has returned 1 on the usage path
C12_Witness ==
    /\ drv_pc = "returned"
    /\ drv_argc = 1
    /\ drv_usage
    /\ drv_status = 1
    /\ drv_trace = <<>>

C14_BestCandidate ==
    (ran_pc \in {"loop", "done"} /\ Len(ran_samples) > 0) =>
        LET J == 1..Len(ran_samples)
            cands == [j \in J |->
                        Candidate(pts_src, pts_ref, ran_samples[j], ran.err_thresh)]
            asGood == [j \in J |->
                        /\ cands[j].count = ran_best.count
                        /\ cands[j].res * ran_best.count = ran_best.res * cands[j].count]
        IN  /\ \A j \in J :
                  /\ ran_best.count >= cands[j].count
                  /\ cands[j].count = ran_best.count =>
                        ran_best.res * cands[j].count <= cands[j].res * ran_best.count
            /\ \E j \in J :
                  /\ asGood[j]
                  /\ \A k \in 1..(j - 1) : ~asGood[k]
                  /\ ran_best = cands[j]

\* two fitted candidates with the same inlier count: the second has the
\* lower residual and has replaced the first
C14_Witness ==
    /\ ran_pc = "loop"
    /\ Len(ran_samples) = 2
    /\ LET c1 == Candidate(pts_src, pts_ref, ran_samples[1], ran.err_thresh)
           c2 == Candidate(pts_src, pts_ref, ran_samples[2], ran.err_thresh)
       IN  /\ c1.count = c2.count
           /\ c2.res < c1.res
           /\ ran_best = c2

\* C17 -- Explicit release by the owner in the driver: when main has
\* returned, on the success path as on the usage path, every image,
\* keypoint store, descriptor store, matrix and match array it initialised
\* or received has been released exactly once, and no stage has read an
\* object after its release.
C17_DriverReleases ==
    /\ ~drv_uaf
    /\ \A o \in DrvObjects : drv_objs[o].rel <= drv_objs[o].acq
    /\ drv_pc = "returned" =>
          \A o \in DrvObjects :
              drv_objs[o].acq > 0 => (drv_objs[o].rel = 1 /\ drv_objs[o].acq = 1)

\* C18 -- Driver argument roles: with two image paths the first (argv[1]) is
\* loaded as the source and the second (argv[2]) as the reference, as the
\* usage text says; with one path that path is the reference and the source
\* is synthesised from it.
C18_ArgumentRoles ==
    /\ drv_argc >= 3 =>
          \A j \in 1..Len(drv_reads) :
              /\ drv_reads[j].into = "src" => drv_reads[j].arg = 1
              /\ drv_reads[j].into = "ref" => drv_reads[j].arg = 2
    /\ drv_argc = 2 =>
          /\ \A j \in 1..Len(drv_reads) :
                drv_reads[j] = [arg |-> 1, into |-> "ref"]
          /\ drv_dims.src > 0 => (syn_mode = 1 /\ drv_dims.src = drv_dims.ref)
    /\ (drv_argc >= 3 /\ drv_dims.src > 0) => syn_mode = 0

\* C15 -- every keypoint the detector returns, detected at an interior voxel
\* of octave o and rescaled by 2^(o-1), lies inside the base volume on each
\* axis: 0 <= x < nx_base, 0 <= y < ny_base, 0 <= z < nz_base
C15_KeypointRange ==
    \A kp \in det.kps :
        \A a \in 1..3 : 0 <= kp.xd[a] /\ kp.xd[a] < 8 * pyr_in[a]

\* a keypoint of an octave whose odd dimension was halved with truncation
C15_Witness ==
    /\ det.ret = "SIFT3D_SUCCESS"
    /\ \E kp \in det.kps :
          /\ kp.o = 2
          /\ pyr_in[1] = 7
          /\ kp.x = <<1, 1, 1>>
          /\ kp.off[1] = 2

\* C19 -- the refinement of a candidate performs at most 5 solve-and-shift
\* iterations and ends with a keypoint whose offsets are all at most 0.5 in
\* magnitude or with the candidate dropped (non-convergence, singular system,
\* shift leaving the interior); the detector never returns an error
C19_RefinementTerminates ==
    /\ det.ret \in {"running", "SIFT3D_SUCCESS"}
    /\ cand.state \in {"none", "refining", "kept", "dropped"}
    /\ cand.state # "none" =>
          /\ cand.iter <= MaxRefineIter
          /\ cand.state = "refining" => cand.iter < MaxRefineIter
          /\ cand.state = "kept" =>
                /\ \A a \in 1..4 : Abs(cand.off[a]) <= 2
                /\ InteriorVoxel(DogLevel(cand.o, cand.l), cand.x)
          /\ cand.state = "dropped" =>
                /\ cand.why \in {"no_convergence", "singular", "left_interior"}
                /\ cand.why = "no_convergence" => cand.iter = MaxRefineIter
    /\ det.ret = "SIFT3D_SUCCESS" =>
          /\ cand.state # "refining"
          /\ det.kps # {} => cand.state = "kept"
          /\ cand.state = "dropped" => det.kps = {}

\* a candidate dropped after the fifth iteration, and the detector succeeded
C19_Witness ==
    /\ cand.state = "dropped"
    /\ cand.why = "no_convergence"
    /\ cand.iter = MaxRefineIter
    /\ det.ret = "SIFT3D_SUCCESS"

\* C16 -- write_dcm_dir on a volume of nz >= 1 slices with meta = NULL writes
\* one file per slice in increasing z, nz files when it succeeds; the file of
\* slice i carries InstanceNumber i + 1; all files carry the same
\* StudyInstanceUID and the same SeriesInstanceUID, the two generated first
\* in the call; and every file has its own newly generated SOPInstanceUID
C16_WrittenDirMetadata ==
    (dcm_op = "write_dcm_dir" /\ dcm_pc # "wd_start"
        /\ wd_meta.study_uid.root = "SITE_STUDY_UID_ROOT") =>
        LET F == 1..Len(files_out)
        IN  /\ Len(files_out) <= wd_im.nz
            /\ (dcm_pc = "returned" /\ dcm_ret = "SIFT3D_SUCCESS") =>
                   Len(files_out) = wd_im.nz
            /\ \A k \in F :
                  /\ files_out[k].path = SliceFileName(k - 1, wd_im.nz)
                  /\ files_out[k].NumberOfFrames = 1
                  /\ files_out[k].InstanceNumber = k
                  /\ files_out[k].StudyInstanceUID =
                         dcmGenerateUniqueIdentifier("SITE_STUDY_UID_ROOT", 1)
                  /\ files_out[k].SeriesInstanceUID =
                         dcmGenerateUniqueIdentifier("SITE_SERIES_UID_ROOT", 2)
                  /\ files_out[k].SOPInstanceUID.root = "SITE_INSTANCE_UID_ROOT"
                  /\ files_out[k].SOPInstanceUID.n > 3
            /\ \A j, k \in F :
                  j # k => /\ files_out[j].SOPInstanceUID # files_out[k].SOPInstanceUID
                           /\ files_out[j].path # files_out[k].path

\* a volume of two slices written with default metadata
C16_Witness ==
    /\ dcm_op = "write_dcm_dir"
    /\ dcm_pc = "returned"
    /\ dcm_ret = "SIFT3D_SUCCESS"
    /\ wd_meta.study_uid.root = "SITE_STUDY_UID_ROOT"
    /\ wd_im.nz = 2
    /\ Len(files_out) = 2

\* C20 -- read_dcm_dir succeeds only if every DICOM file of the directory
\* has the nx, ny and channel count of the first one; the output nz is the
\* sum of the frame counts of all files; during the copy every written z
\* index z + off_z is below nz; and after the last file off_z equals nz, so
\* the assertion off_z == nz never fails
C20_VolumeAssembly ==
    dcm_op = "read_dcm_dir" =>
        LET files == SelectSeq(dir_entries, LAMBDA e : e.fmt = "DICOM")
            frames == [k \in 1..Len(files) |-> files[k].meta]
        IN  /\ dcm_pc # "aborted"
            /\ dcm_pc = "rd_copy" =>
                  /\ im_out.nz = SumNz(frames)
                  /\ off_z = SumNz(SubSeq(dicoms, 1, rd_i - 1))
                  /\ off_z <= im_out.nz
                  /\ rd_i <= Len(dicoms) =>
                        \A z \in 0..(dicoms[rd_i].nz - 1) : z + off_z < im_out.nz
                  /\ rd_i > Len(dicoms) => off_z = im_out.nz
            /\ (dcm_pc = "returned" /\ dcm_ret = "SIFT3D_SUCCESS") =>
                  /\ Len(files) >= 1
                  /\ \A k \in 1..Len(files) :
                        /\ files[k].meta.nx = files[1].meta.nx
                        /\ files[k].meta.ny = files[1].meta.ny
                        /\ files[k].meta.nc = files[1].meta.nc
                  /\ im_out.nx = files[1].meta.nx
                  /\ im_out.ny = files[1].meta.ny
                  /\ im_out.nc = files[1].meta.nc
                  /\ im_out.nz = SumNz(frames)
                  /\ off_z = im_out.nz
                  /\ \A z \in 1..im_out.nz : im_out.prov[z] # <<0, 0>>

\* a series of two files, the second with two frames, assembled into a
\* volume of three slices
C20_Witness ==
    /\ dcm_op = "read_dcm_dir"
    /\ dcm_pc = "returned"
    /\ dcm_ret = "SIFT3D_SUCCESS"
    /\ Len(dicoms) = 2
    /\ dicoms[1].nz = 1
    /\ dicoms[2].nz = 2
    /\ off_z = 3
    /\ im_out.nz = 3

\* C21 -- write_dcm returns SIFT3D_FAILURE and saves no file when the image
\* does not have exactly one channel and when any voxel of the image is
\* negative; the image it was given is still one of the inputs, unchanged
C21_RejectedInputs ==
    (/\ dcm_op = "write_dcm"
     /\ \/ w_im.nc # 1
        \/ \E k \in 1..Len(w_im.vox) : w_im.vox[k] < 0) =>
        /\ files_out = <<>>
        /\ w_im \in WriteImages
        /\ dcm_pc = "returned" => dcm_ret = "SIFT3D_FAILURE"

\* a negative voxel met after a voxel that was rendered
C21_Witness ==
    /\ dcm_op = "write_dcm"
    /\ dcm_pc = "returned"
    /\ dcm_ret = "SIFT3D_FAILURE"
    /\ w_im.nc = 1
    /\ w_im.vox = <<1, -1>>
    /\ pixelData # <<>>
    /\ dcm_exc = "none"

\* C22 -- write_dcm_dir scales every slice with the same factor, the one of
\* the maximum absolute value of the whole volume: the stored value of each
\* slice's voxel is its value times that factor, so equal voxels of
\* different slices are stored as equal 8-bit values and the order of the
\* voxels by value is preserved across slices (the factor is looked at when
\* write_dcm has come back from saving a slice)
C22_UniformScaling ==
    (dcm_op = "write_dcm_dir" /\ dcm_pc \in {"wd_after", "returned"}) =>
        LET F == 1..Len(files_out)
            n == Len(files_out)
        IN  /\ (dcm_pc = "wd_after" /\ dcm_ret = "SIFT3D_SUCCESS") =>
                  /\ Len(files_out[n].PixelData) = 1
                  /\ files_out[n].PixelData[1] \in
                        RenderVoxel(wd_im.vox[n],
                                    ScaleFactor(wd_im, im_max_abs(wd_im)))
            /\ \A j, k \in F :
                  /\ wd_im.vox[j] = wd_im.vox[k] =>
                        files_out[j].PixelData = files_out[k].PixelData
                  /\ wd_im.vox[j] <= wd_im.vox[k] =>
                        files_out[j].PixelData[1] <= files_out[k].PixelData[1]

\* two slices of different value, the smaller stored below full scale
C22_Witness ==
    /\ dcm_op = "write_dcm_dir"
    /\ dcm_pc = "returned"
    /\ dcm_ret = "SIFT3D_SUCCESS"
    /\ wd_im.vox = <<1, 2>>
    /\ Len(files_out) = 2
    /\ files_out[1].PixelData = <<127>>
    /\ files_out[2].PixelData = <<255>>

\* C27 -- every slice file written by write_dcm_dir records as PixelSpacing
\* and SliceThickness the voxel spacing (ux, uy, uz) of the input volume
C27_WrittenSpacing ==
    dcm_op = "write_dcm_dir" =>
        \A k \in 1..Len(files_out) :
            /\ files_out[k].PixelSpacing[1] * 10 = wd_im.u[1]
            /\ files_out[k].PixelSpacing[2] * 10 = wd_im.u[2]
            /\ files_out[k].SliceThickness * 10 = wd_im.u[3]

\* C26 -- the driver's one detector holds the pyramid of its most recent
\* detection: each descriptor extraction reads the pyramid built by the most
\* recent detection, which is a successful detection on the image whose
\* keypoint store the extraction is given; no detection on the other image
\* lies between an image's detection and its extraction
C26_PyramidConsistency ==
    LET Detections == {"detect_ref", "detect_src"}
        DetectionOf(e) == IF e = "extract_ref" THEN "detect_ref" ELSE "detect_src"
    IN  \A j \in 1..Len(drv_trace) :
            drv_trace[j].stage \in {"extract_ref", "extract_src"} =>
                \E k \in 1..(j - 1) :
                    /\ drv_trace[k] = [stage |-> DetectionOf(drv_trace[j].stage),
                                       ok |-> TRUE]
                    /\ \A m \in (k + 1)..(j - 1) :
                          drv_trace[m].stage \notin Detections

\* both images went through detection and extraction
C26_Witness ==
    /\ \E j \in 1..Len(drv_trace) :
          drv_trace[j] = [stage |-> "extract_ref", ok |-> TRUE]
    /\ \E j \in 1..Len(drv_trace) :
          drv_trace[j] = [stage |-> "extract_src", ok |-> TRUE]
    /\ drv_pc = "match"

\* C24: a Dicom is valid only if every load step of its constructor
\* succeeded; a valid Dicom has the file's series UID and instance number,
\* nc = 1, nx, ny, nz >= 1 and ux, uy, uz > 0; every image read_dcm or
\* read_dcm_dir returns with SIFT3D_SUCCESS has positive dimensions and
\* spacing; a default-constructed Dicom is invalid.  (The constructor is
\* applied to every file of the call's input, where the call starts.)
C24_ValidMetadata ==
    /\ ~DefaultDicom.valid
    /\ dcm_op \in {"read_dcm", "read_dcm_dir"} =>
          LET Good(d) ==
                  /\ d.nc = 1
                  /\ d.nx >= 1 /\ d.ny >= 1 /\ d.nz >= 1
                  /\ d.u[1] > 0 /\ d.u[2] > 0 /\ d.u[3] > 0
          IN  /\ dcm_pc \in {"r_start", "rd_start"} =>
                  \A k \in 1..Len(dir_entries) :
                    LET d == LoadDicom(dir_entries, k)
                        m == dir_entries[k].meta
                    IN  (dir_entries[k].fmt = "DICOM" /\ d.valid) =>
                            /\ dir_entries[k].defect = "none"
                            /\ d.seriesUID = m.seriesUID
                            /\ d.instance = m.instance
                            /\ Good(d)
              /\ \A i \in 1..Len(dicoms) : dicoms[i].valid /\ Good(dicoms[i])
              /\ (dcm_pc = "returned" /\ dcm_ret = "SIFT3D_SUCCESS") => Good(im_out)

C24_Witness ==
    /\ dcm_op = "read_dcm"
    /\ dcm_pc = "returned"
    /\ dcm_ret = "SIFT3D_SUCCESS"
    /\ LoadDicom(dir_entries, 1).valid
    /\ im_out.u = <<10000000, 10000000, 10000000>>

\* C23: the files write_dcm_dir wrote into an empty directory are accepted
\* by read_dcm_dir in every enumeration order (all load as valid, same
\* series, equal slice dimensions, and read_dcm_dir does not fail on a
\* slice file's name), and the volume read back has the same nx, ny and nz
\* with slice k coming from the file of slice k; the file names of a volume
\* of 1, 10, 11 or 100 slices are distinct.
C23_DirectoryRoundTrip ==
    /\ dcm_pc = "wd_start" =>
          \A nz \in {1, 10, 11, 100} : \A i, j \in 0..(nz - 1) :
              i # j => SliceFileName(i, nz) # SliceFileName(j, nz)
    /\ (dcm_op = "read_dcm_dir" /\ files_out # <<>>) =>
          LET n == Len(files_out)
              F == 1..n
              loaded == [k \in F |-> LoadDicom(dir_entries, k)]
          IN  /\ n = wd_im.nz
              /\ Len(dir_entries) = n
              /\ \A k \in F :
                    /\ files_out[k].InstanceNumber = k
                    /\ files_out[k].path = SliceFileName(k - 1, n)
                    /\ loaded[k].valid
              /\ SameSeries(loaded)
              /\ SameDims(loaded)
              /\ (dcm_pc = "returned" /\ dcm_ret = "SIFT3D_FAILURE") =>
                    slicename # "destroyed"
              /\ (dcm_pc = "returned" /\ dcm_ret = "SIFT3D_SUCCESS") =>
                    /\ im_out.nx = 1 /\ im_out.ny = 1
                    /\ im_out.nz = wd_im.nz
                    /\ \A z \in 1..im_out.nz :
                          /\ dir_entries[im_out.prov[z][1]].meta.instance = z
                          /\ im_out.prov[z][2] = 1

\* C25: mexImRead3D rejects a call with other than 1 input or more than 1
\* output before it initialises the image; after init_im the image is
\* released exactly once on every path out of the function, and not before;
\* the image is converted to a MATLAB array only when im_read returned
\* SIFT3D_SUCCESS; SIFT3D_FILE_DOES_NOT_EXIST and
\* SIFT3D_UNSUPPORTED_FILE_TYPE are reported as main:dne and
\* main:unsupportedType, every other failure of im_read as main:unexpected.
C25_MexReaderPaths ==
    mex_pc # "idle" =>
        LET out == mex_pc \in {"returned", "error"}
        IN  /\ (mex_nrhs # 1 \/ mex_nlhs > 1) =>
                  /\ mex_pc \in {"args", "error"}
                  /\ mex_im.inits = 0
                  /\ mex_read = "none"
                  /\ mex_pc = "error" =>
                        mex_err = IF mex_nrhs # 1 THEN "main:numInputs"
                                  ELSE "main:numOutputs"
            /\ mex_im.inits <= 1
            /\ mex_im.frees = IF out /\ mex_im.inits = 1 THEN 1 ELSE 0
            /\ mex_plhs # "none" => mex_read = "SIFT3D_SUCCESS"
            /\ mex_pc = "returned" =>
                  mex_plhs = "array" /\ mex_err = "none"
            /\ (mex_pc = "error" /\ mex_read # "none") =>
                  mex_err = CASE mex_read = "SIFT3D_SUCCESS" -> "main:im2mx"
                              [] mex_read = "SIFT3D_FILE_DOES_NOT_EXIST" -> "main:dne"
                              [] mex_read = "SIFT3D_UNSUPPORTED_FILE_TYPE" ->
                                    "main:unsupportedType"
                              [] OTHER -> "main:unexpected"

C25_Witness ==
    /\ mex_pc = "error"
    /\ mex_read = "SIFT3D_FILE_DOES_NOT_EXIST"
    /\ mex_err = "main:dne"
    /\ mex_im.inits = 1
    /\ mex_im.frees = 1
    /\ mex_plhs = "none"

====
